---- MODULE Spec2Model ----
(***************************************************************************)
(* A model of the autoupdate package of bentoo-tools: the Applier that     *)
(* applies a pending version bump (copy the ebuild, regenerate the         *)
(* manifest, optionally run a privileged compile test, record the outcome  *)
(* in the pending ledger), the RateLimiter that gates LLM and HTTP         *)
(* requests, the AnalysisCache, and the pure functions that validate a     *)
(* schema, extract a version history, discover data sources and validate   *)
(* a package configuration.                                                *)
(***************************************************************************)
EXTENDS Integers, Sequences, FiniteSets, TLC

VARIABLES
    pending,    \* Applier.pending: the ledger, package -> PendingUpdate or NoEntry
    fs,         \* the overlay directory: ebuild path -> file content or NoFile
    call,       \* the last Apply call: its arguments, its ApplyResult and what it did
    now,        \* the clock, in ticks of TickSeconds
    buckets,    \* every rate.Limiter allocated so far; a *rate.Limiter is an index
    llmLimiter, \* RateLimiter.llmLimiter
    httpLimiters, \* RateLimiter.httpLimiters: the domains that have a bucket -> *rate.Limiter
    mu,         \* RateLimiter.mu: the goroutine that holds it, or Unlocked
    proc,       \* the goroutines calling the RateLimiter: the call each is in
    stats,      \* per bucket key, what the calls since the limiter was fresh did
    epoch,      \* how many times Reset has replaced the map
    started,    \* how many RateLimiter calls were started
    ret,        \* the RateLimiter call that returned last, and what it returned
    admits,     \* the bucket whose admissions are counted, the window and the counts
    cache,      \* the AnalysisCache: its entries, its clock and the last read made of it
    probe       \* the call made of a pure function: its input and its result

applierVars == <<pending, fs, call>>

limiterVars == <<now, buckets, llmLimiter, httpLimiters, mu, proc, stats, epoch, started,
                 ret, admits>>

vars == <<pending, fs, call, now, buckets, llmLimiter, httpLimiters, mu, proc, stats, epoch,
          started, ret, admits, cache, probe>>

-----------------------------------------------------------------------------
(* Applier: values                                                         *)

\* A package name "category/name" is kept as the list of its "/"-separated
\* parts, which is what strings.Split(pkg, "/") yields.
PkgHello == <<"app-misc", "hello">>
PkgFoo == <<"dev-libs", "foo">>
PkgInvalid == <<"invalid">>

Pkgs == {PkgHello, PkgFoo, PkgInvalid}

Versions == {"1.0.0", "2.0.0"}

\* File contents; "" is the empty file.
Contents == {"", "x"}

NoFile == "<no file>"

NoEntry == [cur |-> "-", new |-> "-", status |-> "<no entry>"]

StatusPending == "pending"
StatusValidated == "validated"
StatusFailed == "failed"

Statuses == {StatusPending, StatusValidated, StatusFailed}

\* An error is the chain of wrapped errors, outermost first; nil is the
\* empty chain.  errors.Is(err, target) walks the chain.
Nil == <<>>

ErrorsIs(err, target) == \E i \in 1..Len(err) : err[i] = target

Wrap(msg, err) == <<msg>> \o err

ErrPackageNotInPending == <<"ErrPackageNotInPending">>
ErrEbuildNotFound == <<"ErrEbuildNotFound">>
ErrManifestFailed == <<"ErrManifestFailed">>
ErrCompileFailed == <<"ErrCompileFailed">>
ErrNoPrivilegeEscalation == <<"ErrNoPrivilegeEscalation">>
ErrUserDeclined == <<"ErrUserDeclined">>

\* filepath.Join(overlayPath, category, pkgName, pkgName-version.ebuild):
\* the directory and the version decide the path.
EbuildPath(pkg, version) == <<pkg[1], pkg[2], version>>

Paths == {EbuildPath(p, v) : p \in {q \in Pkgs : Len(q) = 2}, v \in Versions}

\* What the operating system can make fail inside copyEbuild.
IOFaults == {"none", "open", "create", "copy", "sync"}

\* One thing an Apply call did to the outside world.
Ev(op, pkg, arg, out) == [op |-> op, pkg |-> pkg, arg |-> arg, out |-> out]

OkFail(b) == IF b THEN "ok" ELSE "fail"

-----------------------------------------------------------------------------
(* The pending ledger (PendingList), whose code is not among the sources:  *)
(* Get(pkg) -> (update, found); SetStatus(pkg, status, detail) -> error.   *)

PendingGet(p, pkg) == p[pkg]

\* writeOK is whether the ledger could be saved.
PendingSetStatus(p, pkg, status, writeOK) ==
    IF writeOK /\ p[pkg] # NoEntry
    THEN [err |-> Nil, pending |-> [p EXCEPT ![pkg].status = status]]
    ELSE [err |-> <<"pending list write failed">>, pending |-> p]

-----------------------------------------------------------------------------
(* Applier: the steps of Apply                                             *)

copyEbuild(files, pkg, oldVersion, newVersion, io) ==
    IF Len(pkg) # 2
    THEN [err |-> <<"invalid package name format">>, fs |-> files]
    ELSE
    LET srcPath == EbuildPath(pkg, oldVersion)
        dstPath == EbuildPath(pkg, newVersion)
        \* os.Create truncates the destination, or creates it empty
        created == [files EXCEPT ![dstPath] = ""]
        \* io.Copy reads the source as it is after os.Create
        copied == [created EXCEPT ![dstPath] = created[srcPath]]
    IN  IF files[srcPath] = NoFile
        THEN [err |-> Wrap("not found at path", ErrEbuildNotFound), fs |-> files]
        ELSE IF io = "open"
        THEN [err |-> <<"failed to open source ebuild">>, fs |-> files]
        ELSE IF io = "create"
        THEN [err |-> <<"failed to create destination ebuild">>, fs |-> files]
        ELSE IF io = "copy"
        THEN [err |-> <<"failed to copy ebuild content">>, fs |-> created]
        ELSE IF io = "sync"
        THEN [err |-> <<"failed to sync destination ebuild">>, fs |-> copied]
        ELSE [err |-> Nil, fs |-> copied]

\* runManifest without the check of the command's error.
runManifest_IgnoresExit(pkg, version, cmdOK) ==
    IF Len(pkg) # 2
    THEN <<"invalid package name format">>
    ELSE Nil

\* cmdOK: the command "ebuild <path> manifest" ran and exited with 0.
runManifest(pkg, version, cmdOK) ==
    IF Len(pkg) # 2
    THEN <<"invalid package name format">>
    ELSE IF ~cmdOK
    THEN <<"command failed">>
    ELSE Nil

detectPrivilegeTool(haveDoas, haveSudo) ==
    IF haveDoas
    THEN [tool |-> "doas", err |-> Nil]
    ELSE IF haveSudo
    THEN [tool |-> "sudo", err |-> Nil]
    ELSE [tool |-> "", err |-> ErrNoPrivilegeEscalation]

\* The path of the log, "" when the log could not be written.
saveCompileLog(pkg, version, writeOK) ==
    IF writeOK THEN "logs/" \o pkg[1] \o "_" \o pkg[2] \o "-" \o version \o ".log" ELSE ""

\* runCompile going on after the confirmation function declined.
runCompile_IgnoresDecline(pkg, version, env) ==
    LET priv == detectPrivilegeTool(env.doas, env.sudo)
        asked == <<Ev("confirm", pkg, version, IF env.confirm THEN "yes" ELSE "no"),
                   Ev("LookPath", pkg, priv.tool, OkFail(priv.err = Nil))>>
        ran == asked \o <<Ev("exec", pkg, priv.tool \o " ebuild clean compile",
                             OkFail(env.compileOK))>>
    IN  IF priv.err # Nil
        THEN [logPath |-> "", err |-> priv.err, events |-> asked]
        ELSE IF ~env.compileOK
        THEN [logPath |-> saveCompileLog(pkg, version, env.logOK),
              err |-> Wrap("exit status", ErrCompileFailed),
              events |-> ran \o <<Ev("saveCompileLog", pkg, version, OkFail(env.logOK))>>]
        ELSE [logPath |-> "", err |-> Nil, events |-> ran]

\* env: what the confirmation function answers, which privilege tools exist,
\* whether the compile command succeeds and whether its log can be written.
runCompile(pkg, version, env) ==
    IF ~env.confirm
    THEN [logPath |-> "", err |-> ErrUserDeclined,
          events |-> <<Ev("confirm", pkg, version, "no")>>]
    ELSE
    LET priv == detectPrivilegeTool(env.doas, env.sudo)
        asked == <<Ev("confirm", pkg, version, "yes"),
                   Ev("LookPath", pkg, priv.tool, OkFail(priv.err = Nil))>>
        ran == asked \o <<Ev("exec", pkg, priv.tool \o " ebuild clean compile",
                             OkFail(env.compileOK))>>
    IN  IF priv.err # Nil
        THEN [logPath |-> "", err |-> priv.err, events |-> asked]
        ELSE IF Len(pkg) # 2
        THEN [logPath |-> "", err |-> <<"invalid package name format">>, events |-> asked]
        ELSE IF ~env.compileOK
        THEN [logPath |-> saveCompileLog(pkg, version, env.logOK),
              err |-> Wrap("exit status", ErrCompileFailed),
              events |-> ran \o <<Ev("saveCompileLog", pkg, version, OkFail(env.logOK))>>]
        ELSE [logPath |-> "", err |-> Nil, events |-> ran]

\* The outcomes runCompile can meet.  An outcome it never asks for (the tools
\* after a decline, the command without a tool, the log of a command that
\* succeeded) is left at FALSE.
CompileEnvs ==
    {e \in [confirm : BOOLEAN, doas : BOOLEAN, sudo : BOOLEAN,
            compileOK : BOOLEAN, logOK : BOOLEAN] :
        /\ ~e.confirm => ~e.doas /\ ~e.sudo
        /\ (~e.doas /\ ~e.sudo) => ~e.compileOK
        /\ (e.compileOK \/ (~e.doas /\ ~e.sudo)) => ~e.logOK}

-----------------------------------------------------------------------------
(* Applier.Apply: the result built at each return                          *)

NewResult(pkg) ==
    [Package |-> pkg, OldVersion |-> "", NewVersion |-> "",
     Success |-> FALSE, Error |-> Nil, LogPath |-> ""]

\* SetStatus(pkg, StatusFailed, ...) on an error path: a failed write is
\* appended to the error, the error is not replaced.
MarkFailed(p, pkg, result, writeOK) ==
    LET st == PendingSetStatus(p, pkg, StatusFailed, writeOK)
    IN  [result |-> IF st.err # Nil
                    THEN [result EXCEPT !.Error = Wrap("also failed to update status", result.Error)]
                    ELSE result,
         pending |-> st.pending,
         events |-> <<Ev("SetStatus", pkg, StatusFailed, OkFail(st.err = Nil))>>]

\* ApplyNotInPending with the SetStatus call of the other error paths.
ApplyNotInPending_MarksFailed(p, pkg) ==
    MarkFailed(p, pkg, [NewResult(pkg) EXCEPT !.Error = ErrPackageNotInPending], TRUE)

ApplyNotInPending(p, pkg) ==
    [result |-> [NewResult(pkg) EXCEPT !.Error = ErrPackageNotInPending],
     pending |-> p,
     events |-> <<>>]

ApplyFound(pkg, update) ==
    [NewResult(pkg) EXCEPT !.OldVersion = update.cur, !.NewVersion = update.new]

\* ApplyCopyFailed without the SetStatus call.
ApplyCopyFailed_NoStatus(p, pkg, result, err, writeOK) ==
    [result |-> [result EXCEPT !.Error = Wrap("failed to copy ebuild", err)],
     pending |-> p,
     events |-> <<>>]

ApplyCopyFailed(p, pkg, result, err, writeOK) ==
    MarkFailed(p, pkg, [result EXCEPT !.Error = Wrap("failed to copy ebuild", err)], writeOK)

\* ApplyManifestFailed without the SetStatus call.
ApplyManifestFailed_NoStatus(p, pkg, result, err, writeOK) ==
    [result |-> [result EXCEPT !.Error = Wrap("manifest", ErrManifestFailed)],
     pending |-> p,
     events |-> <<>>]

ApplyManifestFailed(p, pkg, result, err, writeOK) ==
    \* fmt.Errorf("%w: %v", ErrManifestFailed, err): only the sentinel is wrapped
    MarkFailed(p, pkg, [result EXCEPT !.Error = Wrap("manifest", ErrManifestFailed)], writeOK)

ApplySetValidated(p, pkg, result, writeOK) ==
    LET st == PendingSetStatus(p, pkg, StatusValidated, writeOK)
    IN  [result |-> IF st.err # Nil
                    THEN [result EXCEPT !.Error = Wrap("failed to update status", st.err)]
                    ELSE result,
         pending |-> st.pending,
         events |-> <<Ev("SetStatus", pkg, StatusValidated, OkFail(st.err = Nil))>>]

ApplyCompileFailed(p, pkg, result, err, logPath, writeOK) ==
    MarkFailed(p, pkg, [result EXCEPT !.Error = err, !.LogPath = logPath], writeOK)

ApplySuccess(result) == [result EXCEPT !.Success = TRUE]

-----------------------------------------------------------------------------
(* Applier.Apply                                                           *)

\* With what a call was asked and what it returned, the record of a call
\* keeps what it did and the status the entry had when it began.
NoCall ==
    [done |-> FALSE, pkg |-> <<>>, compile |-> FALSE, found |-> FALSE,
     result |-> NewResult(<<>>), events |-> <<>>, prior |-> "-"]

Returns(pkg, compile, found, result, p, files, events) ==
    /\ UNCHANGED limiterVars
    /\ UNCHANGED <<cache, probe>>
    /\ pending' = p
    /\ fs' = files
    /\ call' = [done |-> TRUE, pkg |-> pkg, compile |-> compile, found |-> found,
                result |-> result, events |-> events,
                prior |-> IF pending[pkg] = NoEntry THEN "-" ELSE pending[pkg].status]

\* The part of Apply after the status was set to validated.
ApplyCompile(pkg, compile, update, result, p, files, events) ==
    IF ~compile
    THEN Returns(pkg, compile, TRUE, ApplySuccess(result), p, files, events)
    ELSE \E env \in CompileEnvs :
         LET rc == runCompile(pkg, update.new, env)
         IN  IF rc.err # Nil
             THEN \E writeOK \in BOOLEAN :
                  LET f == ApplyCompileFailed(p, pkg, result, rc.err, rc.logPath, writeOK)
                  IN  Returns(pkg, compile, TRUE, f.result, f.pending, files,
                              events \o rc.events \o f.events)
             ELSE Returns(pkg, compile, TRUE, ApplySuccess(result), p, files,
                          events \o rc.events)

\* The part of Apply after the ebuild was copied.
ApplyManifest(pkg, compile, update, result, files, events) ==
    \E cmdOK \in BOOLEAN :
    LET err == runManifest(pkg, update.new, cmdOK)
        evs == events \o <<Ev("exec", pkg, "ebuild manifest", OkFail(cmdOK))>>
    IN  IF err # Nil
        THEN \E writeOK \in BOOLEAN :
             LET f == ApplyManifestFailed(pending, pkg, result, err, writeOK)
             IN  Returns(pkg, compile, TRUE, f.result, f.pending, files, evs \o f.events)
        ELSE \E writeOK \in BOOLEAN :
             LET v == ApplySetValidated(pending, pkg, result, writeOK)
             IN  IF v.result.Error # Nil
                 THEN Returns(pkg, compile, TRUE, v.result, v.pending, files, evs \o v.events)
                 ELSE ApplyCompile(pkg, compile, update, v.result, v.pending, files,
                                   evs \o v.events)

Apply(pkg, compile) ==
    LET update == PendingGet(pending, pkg)
    IN  IF update = NoEntry
        THEN LET nf == ApplyNotInPending(pending, pkg)
             IN  Returns(pkg, compile, FALSE, nf.result, nf.pending, fs, nf.events)
        ELSE \E io \in IOFaults :
             LET result == ApplyFound(pkg, update)
                 cp == copyEbuild(fs, pkg, update.cur, update.new, io)
                 evs == <<Ev("copyEbuild", pkg, update.new, OkFail(cp.err = Nil))>>
             IN  IF cp.err # Nil
                 THEN \E writeOK \in BOOLEAN :
                      LET f == ApplyCopyFailed(pending, pkg, result, cp.err, writeOK)
                      IN  Returns(pkg, compile, TRUE, f.result, f.pending, cp.fs,
                                  evs \o f.events)
                 ELSE ApplyManifest(pkg, compile, update, result, cp.fs, evs)

-----------------------------------------------------------------------------
(* The Applier as a state machine: an overlay and a ledger, then Apply     *)
(* calls one after another.                                                *)

\* The ledger rows a discovery run can have added for the packages.
InitEntries(pkg) ==
    IF pkg = PkgHello
    THEN {NoEntry} \cup [cur : Versions, new : Versions, status : {StatusPending}]
    ELSE {[cur |-> "1.0.0", new |-> "2.0.0", status |-> StatusPending]}

InitFiles(path) ==
    IF path[2] = PkgHello[2]
    THEN Contents \cup {NoFile}
    ELSE IF path[3] = "1.0.0" THEN {"x"} ELSE {NoFile}

\* No RateLimiter is in use.
LimiterUnused ==
    /\ now = 0
    /\ buckets = <<>>
    /\ llmLimiter = 0
    /\ httpLimiters = <<>>
    /\ mu = 0
    /\ proc = <<>>
    /\ stats = <<>>
    /\ epoch = 0
    /\ started = 0
    /\ ret = <<>>
    /\ admits = <<>>

ApplierInit ==
    /\ LimiterUnused
    /\ cache = <<>>
    /\ probe = <<>>
    /\ pending \in {p \in [Pkgs -> {NoEntry} \cup [cur : Versions, new : Versions, status : Statuses]] :
                        \A pkg \in Pkgs : p[pkg] \in InitEntries(pkg)}
    /\ fs \in {f \in [Paths -> Contents \cup {NoFile}] :
                        \A path \in Paths : f[path] \in InitFiles(path)}
    /\ call = NoCall

ApplyCall == \E pkg \in Pkgs, compile \in BOOLEAN : Apply(pkg, compile)

ApplierNext == ApplyCall

SpecApplier == ApplierInit /\ [][ApplierNext]_vars

-----------------------------------------------------------------------------
(* What the last Apply call did                                            *)

Did(op, arg, out) ==
    \E i \in 1..Len(call.events) :
        /\ call.events[i].op = op
        /\ call.events[i].arg = arg
        /\ call.events[i].out = out

DidOut(op, out) ==
    \E i \in 1..Len(call.events) : call.events[i].op = op /\ call.events[i].out = out

CompileRan == \E i \in 1..Len(call.events) :
                 /\ call.events[i].op = "exec"
                 /\ call.events[i].arg # "ebuild manifest"

CompileExited(out) == \E i \in 1..Len(call.events) :
                         /\ call.events[i].op = "exec"
                         /\ call.events[i].arg # "ebuild manifest"
                         /\ call.events[i].out = out

SetStatusCalls == {i \in 1..Len(call.events) : call.events[i].op = "SetStatus"}

Declined == \E i \in 1..Len(call.events) :
               call.events[i].op = "confirm" /\ call.events[i].out = "no"

Failed == call.done /\ call.found /\ call.result.Error # Nil

StatusOf(pkg) == pending[pkg].status

Sentinels ==
    {"ErrEbuildNotFound", "ErrManifestFailed", "ErrNoPrivilegeEscalation", "ErrCompileFailed",
     "ErrUserDeclined", "ErrPackageNotInPending"}

\* The error names the stage that failed, and no other stage.
StageIdentified ==
    LET err == call.result.Error
        src == EbuildPath(call.pkg, pending[call.pkg].cur)
    IN  /\ (Len(call.pkg) = 2 /\ fs[src] = NoFile) => ErrorsIs(err, "ErrEbuildNotFound")
        /\ Did("exec", "ebuild manifest", "fail") => ErrorsIs(err, "ErrManifestFailed")
        /\ Did("LookPath", "", "fail") => ErrorsIs(err, "ErrNoPrivilegeEscalation")
        /\ CompileExited("fail") => ErrorsIs(err, "ErrCompileFailed")
        /\ Cardinality({s \in Sentinels : ErrorsIs(err, s)}) <= 1

-----------------------------------------------------------------------------
(* Claims about Apply                                                      *)

\* C1: for every pending entry whose source ebuild exists, Apply(pkg, false)
\* with a succeeding manifest command (and a ledger that accepts the write)
\* returns Success with a nil error, leaves {name}-{newVersion}.ebuild with
\* the content the source had, leaves the source as it was and sets the
\* status validated.
C1_ApplyCopiesAndValidates ==
    [][LET c == call'
       IN  (/\ c.done /\ c.found /\ ~c.compile /\ Len(c.pkg) = 2
            /\ fs[EbuildPath(c.pkg, pending[c.pkg].cur)] # NoFile
            /\ \E i \in 1..Len(c.events) :
                   c.events[i] = Ev("exec", c.pkg, "ebuild manifest", "ok")
            /\ \E i \in 1..Len(c.events) :
                   c.events[i] = Ev("SetStatus", c.pkg, StatusValidated, "ok"))
           => LET src == EbuildPath(c.pkg, pending[c.pkg].cur)
                  dst == EbuildPath(c.pkg, pending[c.pkg].new)
              IN  /\ c.result.Success
                  /\ c.result.Error = Nil
                  /\ fs'[dst] = fs[src]
                  /\ fs'[src] = fs[src]
                  /\ pending'[c.pkg].status = StatusValidated]_vars

\* C2 as claimed: every Apply failure after the entry was found, other than
\* the user declining, returns Success=false with an error that names the
\* failing stage and leaves the status of the package at failed.
C2_FailureMarksFailed ==
    (Failed /\ ~Declined)
        => /\ ~call.result.Success
           /\ StageIdentified
           /\ StatusOf(call.pkg) = StatusFailed

\* C2 as amended: ... and leaves the status of the package at failed unless
\* the ledger write itself failed, which the returned error then reports.
C2_FailureMarksFailedUnlessWriteFails ==
    (Failed /\ ~Declined)
        => /\ ~call.result.Success
           /\ StageIdentified
           /\ \/ StatusOf(call.pkg) = StatusFailed
              \/ ErrorsIs(call.result.Error, "failed to update status")
              \/ ErrorsIs(call.result.Error, "also failed to update status")

C2_Witness ==
    /\ Failed /\ ~Declined
    /\ Did("exec", "ebuild manifest", "fail")
    /\ ErrorsIs(call.result.Error, "ErrManifestFailed")
    /\ StatusOf(call.pkg) = StatusFailed

\* C3: when the confirmation function declines (the ledger accepting every
\* write), Apply returns ErrUserDeclined with Success=false, never runs the
\* compile command and does not touch the status again: it stays validated.
C3_DeclineKeepsValidated ==
    (call.done /\ call.compile /\ Declined /\ ~DidOut("SetStatus", "fail"))
        => /\ call.result.Error = ErrUserDeclined
           /\ ~call.result.Success
           /\ ~CompileRan
           /\ Cardinality(SetStatusCalls) = 1
           /\ StatusOf(call.pkg) = StatusValidated

\* C4: Apply on a package with no ledger entry fails with
\* ErrPackageNotInPending and does nothing else: no file changes, no command
\* runs, no SetStatus call.
C4_NotInPendingNoEffect ==
    [][(call'.done /\ PendingGet(pending, call'.pkg) = NoEntry)
           => /\ call'.result.Error = ErrPackageNotInPending
              /\ ~call'.result.Success
              /\ call'.events = <<>>
              /\ fs' = fs
              /\ pending' = pending]_vars

C4_Witness ==
    /\ call.done /\ ~call.found
    /\ PendingGet(pending, call.pkg) = NoEntry
    /\ call.result.Error = ErrPackageNotInPending

\* C5: Success is returned only after the copy and the manifest command both
\* succeeded and, when the compile test was asked for, it was confirmed and
\* succeeded; with Success the error is nil and the status is validated.
C5_SuccessOnlyIfAllStepsSucceeded ==
    (call.done /\ call.result.Success)
        => /\ Did("copyEbuild", call.result.NewVersion, "ok")
           /\ fs[EbuildPath(call.pkg, call.result.NewVersion)] # NoFile
           /\ Did("exec", "ebuild manifest", "ok")
           /\ ~Did("exec", "ebuild manifest", "fail")
           /\ call.compile => (~Declined /\ CompileExited("ok") /\ ~CompileExited("fail"))
           /\ call.result.Error = Nil
           /\ StatusOf(call.pkg) = StatusValidated

C5_Witness ==
    /\ call.done /\ call.result.Success /\ call.compile
    /\ CompileExited("ok")
    /\ StatusOf(call.pkg) = StatusValidated

-----------------------------------------------------------------------------
(* RateLimiter: time and tokens                                            *)

\* NewRateLimiter: rate.NewLimiter(rate.Every(12*time.Second), 1) for LLM
\* requests, rate.NewLimiter(rate.Every(6*time.Second), 1) per HTTP domain.
LLMEverySeconds == 12
HTTPEverySeconds == 6
DefaultBurst == 1

\* One tick of the clock.
TickSeconds == HTTPEverySeconds

LLMInterval == LLMEverySeconds \div TickSeconds
HTTPInterval == HTTPEverySeconds \div TickSeconds

\* Tokens are counted in 1/TokenScale of a token, so that a tick adds a whole
\* number of them to every bucket.
TokenScale == LLMInterval

\* Limit.tokensFromDuration and Limit.durationFromTokens of a limit of one
\* token per interval.
tokensFromDuration(interval, d) == (d * TokenScale) \div interval

durationFromTokens(interval, tokens) == (tokens * interval) \div TokenScale

Min(a, b) == IF a < b THEN a ELSE b

\* rate.NewLimiter(rate.Every(interval), burst) at time t.  A limiter starts
\* with its burst available.
NewLimiter(interval, burst, t) ==
    [interval |-> interval, burst |-> burst, tokens |-> burst * TokenScale,
     last |-> t, lastEvent |-> t]

\* advance without the cap at the burst: an idle bucket keeps filling.
advance_Uncapped(b, t) ==
    b.tokens + tokensFromDuration(b.interval, t - Min(b.last, t))

\* Limiter.advance: the tokens the bucket holds at time t.
advance(b, t) ==
    LET last == Min(b.last, t)
        tokens == b.tokens + tokensFromDuration(b.interval, t - last)
    IN  Min(tokens, b.burst * TokenScale)

\* Limiter.reserveN(t, 1, maxFutureReserve); bounded = FALSE is InfDuration.
reserveN(b, t, bounded, maxFutureReserve) ==
    LET tokens == advance(b, t) - TokenScale
        waitDuration == IF tokens < 0 THEN durationFromTokens(b.interval, 0 - tokens) ELSE 0
        ok == 1 <= b.burst /\ (~bounded \/ waitDuration <= maxFutureReserve)
    IN  [ok |-> ok,
         timeToAct |-> IF ok THEN t + waitDuration ELSE 0,
         bucket |-> IF ok
                    THEN [b EXCEPT !.last = t, !.tokens = tokens, !.lastEvent = t + waitDuration]
                    ELSE b]

\* Reservation.CancelAt(t) of a reservation of one token: the bucket after it.
cancelAt(b, timeToAct, t) ==
    LET restoreTokens == TokenScale - tokensFromDuration(b.interval, b.lastEvent - timeToAct)
        tokens == Min(advance(b, t) + restoreTokens, b.burst * TokenScale)
        prevEvent == timeToAct - durationFromTokens(b.interval, TokenScale)
    IN  IF timeToAct < t \/ restoreTokens <= 0
        THEN b
        ELSE [b EXCEPT !.last = t,
                       !.tokens = tokens,
                       !.lastEvent = IF timeToAct = b.lastEvent /\ prevEvent >= t
                                     THEN prevEvent ELSE b.lastEvent]

\* Limiter.SetLimitAt(t, newLimit) and Limiter.SetBurstAt(t, newBurst).
setLimitAt(b, t, interval) ==
    [b EXCEPT !.last = t, !.tokens = advance(b, t), !.interval = interval]

setBurstAt(b, t, burst) ==
    [b EXCEPT !.last = t, !.tokens = advance(b, t), !.burst = burst]

-----------------------------------------------------------------------------
(* RateLimiter: contexts and errors                                        *)

NoDeadline == 0 - 1

Background == [cancelled |-> FALSE, deadline |-> NoDeadline]

\* ctx.Err() at time t
CtxErr(ctx, t) ==
    IF ctx.cancelled
    THEN "context canceled"
    ELSE IF ctx.deadline # NoDeadline /\ t >= ctx.deadline
    THEN "context deadline exceeded"
    ELSE "nil"

ErrRateLimitExceeded == "rate limit exceeded"
ErrBurstExceeded == "rate: Wait(n=1) exceeds limiter's burst"
ErrWouldExceedDeadline == "rate: Wait(n=1) would exceed context deadline"

\* WaitLLM / WaitHTTP returning the error of limiter.Wait as it is.
waitError_PassThrough(err, ctxErr) == err

\* WaitLLM / WaitHTTP: what is returned for the error err of limiter.Wait,
\* ctxErr being ctx.Err() at that moment.
waitError(err, ctxErr) ==
    IF err # "nil"
    THEN IF ctxErr # "nil" THEN ErrRateLimitExceeded ELSE err
    ELSE "nil"

-----------------------------------------------------------------------------
(* RateLimiter: the limiter and its buckets                                *)

\* The goroutines that contend with Allow calls, and those that make any
\* other call; how many calls each kind of run makes; how far the clock runs.
NumContenders == 3
NumCallers == 2
MaxAllows == 3
MaxWaits == 2
MaxCalls == 3
MaxTime == 2
MaxTimeBuckets == 1

Contenders == 1..NumContenders
Callers == 1..NumCallers

Domains == {"a.com", "b.org"}
LLMKey == "llm"
Keys == {LLMKey} \cup Domains

\* The burst arguments SetLLMLimit and SetHTTPLimit are called with.
Bursts == {0, 2}

NoLimiter == 0
Unlocked == 0

LLMOps == {"AllowLLM", "ReserveLLM", "WaitLLM", "LLMLimit", "SetLLMLimit"}
HTTPOps == {"AllowHTTP", "ReserveHTTP", "WaitHTTP", "HTTPLimit", "SetHTTPLimit"}
AllowOps == {"AllowLLM", "AllowHTTP"}
WaitOps == {"WaitLLM", "WaitHTTP"}
MapOps == {"DomainCount", "Reset"}

\* The step of a call that follows the lookup of its bucket.
OpPC(op) ==
    CASE op \in AllowOps -> "allow"
      [] op \in {"ReserveLLM", "ReserveHTTP"} -> "reserve"
      [] op \in WaitOps -> "wait"
      [] op \in {"LLMLimit", "HTTPLimit"} -> "limit"
      [] op \in {"SetLLMLimit", "SetHTTPLimit"} -> "setLimit"
      [] op = "DomainCount" -> "count"
      [] op = "Reset" -> "resetHTTP"

KeyOf(p) == IF p.op \in LLMOps THEN LLMKey ELSE p.dom

\* getHTTPLimiter(domain), under r.mu: a bucket is made for every call and
\* never stored.
getHTTPLimiter_NoStore(limiters, bs, domain, t) ==
    [limiters |-> limiters,
     buckets |-> Append(bs, NewLimiter(HTTPInterval, DefaultBurst, t)),
     limiter |-> Len(bs) + 1]

\* getHTTPLimiter(domain), under r.mu: a bucket is made for every call and
\* replaces the one stored.
getHTTPLimiter_AlwaysCreates(limiters, bs, domain, t) ==
    [limiters |-> [d \in DOMAIN limiters \cup {domain} |-> 
                     IF d = domain THEN Len(bs) + 1 ELSE limiters[d]],
     buckets |-> Append(bs, NewLimiter(HTTPInterval, DefaultBurst, t)),
     limiter |-> Len(bs) + 1]

\* getHTTPLimiter(domain), under r.mu: one bucket serves every domain.
getHTTPLimiter_SharedBucket(limiters, bs, domain, t) ==
    IF DOMAIN limiters # {}
    THEN [limiters |-> [d \in DOMAIN limiters \cup {domain} |->
                          limiters[CHOOSE e \in DOMAIN limiters : TRUE]],
          buckets |-> bs,
          limiter |-> limiters[CHOOSE e \in DOMAIN limiters : TRUE]]
    ELSE [limiters |-> [d \in {domain} |-> Len(bs) + 1],
          buckets |-> Append(bs, NewLimiter(HTTPInterval, DefaultBurst, t)),
          limiter |-> Len(bs) + 1]

\* getHTTPLimiter(domain), under r.mu: the bucket of the domain, made and
\* stored if the map has none.
getHTTPLimiter(limiters, bs, domain, t) ==
    IF domain \in DOMAIN limiters
    THEN [limiters |-> limiters, buckets |-> bs, limiter |-> limiters[domain]]
    ELSE [limiters |-> [d \in DOMAIN limiters \cup {domain} |->
                          IF d = domain THEN Len(bs) + 1 ELSE limiters[d]],
          buckets |-> Append(bs, NewLimiter(HTTPInterval, DefaultBurst, t)),
          limiter |-> Len(bs) + 1]

\* limiter.Allow(), a denied call taking its token all the same.
Allow_ConsumesOnDeny(b, t) ==
    LET r == reserveN(b, t, FALSE, 0)
    IN  [ok |-> r.ok /\ r.timeToAct = t, bucket |-> r.bucket]

\* limiter.Allow(): AllowN(time.Now(), 1), that is reserveN(t, 1, 0).ok
Allow(b, t) ==
    LET r == reserveN(b, t, TRUE, 0)
    IN  [ok |-> r.ok, bucket |-> r.bucket]

\* limiter.Reserve(): ReserveN(time.Now(), 1), that is reserveN(t, 1, InfDuration)
Reserve(b, t) == reserveN(b, t, FALSE, 0)

\* limiter.Wait(ctx), up to the point where it returns or blocks.
Wait(b, ctx, t) ==
    LET r == reserveN(b, t, ctx.deadline # NoDeadline, ctx.deadline - t)
    IN  IF 1 > b.burst
        THEN [err |-> ErrBurstExceeded, blocked |-> FALSE, timeToAct |-> 0, bucket |-> b]
        ELSE IF CtxErr(ctx, t) # "nil"
        THEN [err |-> CtxErr(ctx, t), blocked |-> FALSE, timeToAct |-> 0, bucket |-> b]
        ELSE IF ~r.ok
        THEN [err |-> ErrWouldExceedDeadline, blocked |-> FALSE, timeToAct |-> 0, bucket |-> b]
        ELSE [err |-> "nil", blocked |-> r.timeToAct > t,
              timeToAct |-> r.timeToAct, bucket |-> r.bucket]

-----------------------------------------------------------------------------
(* RateLimiter: what is observed of the calls                              *)

\* What the calls on one bucket key did since the limiter was constructed or
\* last Reset.
FreshStats ==
    [accessed |-> FALSE,   \* getHTTPLimiter has looked the domain up
     created |-> 0,        \* how many buckets were allocated for the key
     ops |-> 0,            \* how many calls acted on a bucket of the key
     allows |-> 0,         \* how many of them were Allow calls
     grants |-> 0,         \* how many Allow calls returned true
     first |-> "none",     \* what the first call on the bucket got
     firstAt |-> 0,        \* when the first call acted
     firstDuringWait |-> FALSE, \* a Wait on another key was blocked when it acted
     onlyAllow |-> TRUE,   \* only Allow calls on the current bucket acted so far
     overlapped |-> FALSE] \* an Allow call acted while another Allow call was in progress

Idle ==
    [op |-> "idle", pc |-> "idle", dom |-> "-", ctx |-> Background, arg |-> 0,
     lim |-> NoLimiter, epoch |-> 0, err |-> "nil", timeToAct |-> 0,
     exhausted |-> FALSE, cancelledAt |-> "-"]

NoRet ==
    [op |-> "idle", dom |-> "-", res |-> "-", exhausted |-> FALSE, cancelledAt |-> "-",
     early |-> FALSE]

\* The bucket the limiter holds for a key now, NoLimiter if it has none.
Current(key) ==
    IF key = LLMKey
    THEN llmLimiter
    ELSE IF key \in DOMAIN httpLimiters THEN httpLimiters[key] ELSE NoLimiter

\* The state of the bucket of a key, "none" if the limiter has none.
BucketOf(key) == IF Current(key) = NoLimiter THEN "none" ELSE buckets[Current(key)]

\* Another caller is inside an Allow call on the same key.
OtherAllowInProgress(c) ==
    \E d \in Contenders \ {c} : proc[d].op \in AllowOps /\ KeyOf(proc[d]) = KeyOf(proc[c])

\* Another caller is blocked in a Wait on a bucket of another key.
OtherWaitBlocked(c) ==
    \E d \in Contenders \ {c} : proc[d].pc = "blocked" /\ KeyOf(proc[d]) # KeyOf(proc[c])

\* The stats of caller c's key after c's call acted on its bucket and got
\* `outcome`.  A call on a bucket the limiter no longer holds (one replaced
\* by Reset) is not counted, and nothing is in a run that watches the
\* admission times instead.
Acted(c, outcome) ==
    LET p == proc[c]
        k == KeyOf(p)
        st == stats[k]
        isAllow == p.op \in AllowOps
        onCurrent == p.lim = Current(k)
    IN  IF ~onCurrent \/ admits.watch THEN stats ELSE
        [stats EXCEPT ![k] =
            [st EXCEPT !.ops = st.ops + 1,
                       !.allows = IF isAllow THEN st.allows + 1 ELSE st.allows,
                       !.grants = IF isAllow /\ outcome = "true"
                                  THEN st.grants + 1 ELSE st.grants,
                       !.first = IF st.ops = 0 THEN outcome ELSE st.first,
                       !.firstAt = IF st.ops = 0 THEN now ELSE st.firstAt,
                       !.firstDuringWait = IF st.ops = 0 THEN OtherWaitBlocked(c)
                                           ELSE st.firstDuringWait,
                       !.onlyAllow = st.onlyAllow /\ isAllow,
                       !.overlapped = st.overlapped \/ (isAllow /\ OtherAllowInProgress(c))]]

\* Caller c returns res.
Return(c, res) ==
    /\ proc' = [proc EXCEPT ![c] = Idle]
    /\ ret' = [op |-> proc[c].op, dom |-> proc[c].dom, res |-> res,
               exhausted |-> proc[c].exhausted,       \* Wait found no token in the bucket
               cancelledAt |-> proc[c].cancelledAt,   \* the step at which ctx was cancelled
               early |-> now < proc[c].timeToAct]     \* Wait's timer had not fired

\* Caller c moves on to step pc.
Goto(c, pc) ==
    /\ proc' = [proc EXCEPT ![c].pc = pc]
    /\ UNCHANGED ret

BoolStr(b) == IF b THEN "true" ELSE "false"

\* A run can watch the admissions of one bucket: it counts those of the
\* 60 seconds that follow the instant start.
NotWatched == [watch |-> FALSE, key |-> "-", start |-> 0, n |-> 0, m |-> 0]

Watched(key, start) == [NotWatched EXCEPT !.watch = TRUE, !.key = key, !.start = start]

\* "5 requests per minute", "10 requests per minute": the window the limits
\* are stated for.
WindowSeconds == 60
WindowTicks == WindowSeconds \div TickSeconds

\* A request is admitted at instant t, the instant the limiter granted its
\* token for: the instant of an Allow that returned true, the instant a Wait
\* that returned nil found a token or had reserved one for (its timer can
\* wake the caller later than that).  n counts the admissions at instants t
\* with start <= t < start + 60 s, m those with start <= t <= start + 60 s.
Admit(t) ==
    IF ~admits.watch \/ t < admits.start
    THEN UNCHANGED admits
    ELSE admits' = [admits EXCEPT
                      !.n = IF t - admits.start < WindowTicks THEN @ + 1 ELSE @,
                      !.m = IF t - admits.start <= WindowTicks THEN @ + 1 ELSE @]

-----------------------------------------------------------------------------
(* RateLimiter: the steps of its callers                                   *)

\* A step of the RateLimiter leaves everything else alone.
othersIdle == UNCHANGED <<applierVars, cache, probe>>

\* The contexts a Wait call is made with: without a deadline, cancelled
\* already or not.
Contexts == [cancelled : BOOLEAN, deadline : {NoDeadline}]

\* The domain the WaitHTTP calls of CallWait are made for.
WaitDomain == "a.com"

\* A goroutine calls a method of the RateLimiter.
CallOp(c, op, dom, ctx, arg) ==
    /\ proc[c].pc = "idle"
    /\ started' = started + 1
    /\ proc' = [proc EXCEPT ![c] =
                  [Idle EXCEPT !.op = op, !.dom = dom, !.ctx = ctx, !.arg = arg,
                               !.pc = IF op \in LLMOps THEN "read" ELSE "lock",
                               !.cancelledAt = IF ctx.cancelled THEN "start" ELSE "-"]]
    /\ UNCHANGED <<now, buckets, llmLimiter, httpLimiters, mu, stats, epoch, ret>>
    /\ UNCHANGED admits
    /\ othersIdle

\* AllowLLM() or AllowHTTP(domain)
CallAllow(c) ==
    /\ started < MaxAllows
    /\ \/ CallOp(c, "AllowLLM", "-", Background, 0)
       \/ \E dom \in Domains : CallOp(c, "AllowHTTP", dom, Background, 0)

\* WaitLLM(ctx) or WaitHTTP(ctx, domain)
CallWait(c) ==
    /\ started < MaxWaits
    /\ \E ctx \in Contexts :
           \/ CallOp(c, "WaitLLM", "-", ctx, 0)
           \/ CallOp(c, "WaitHTTP", WaitDomain, ctx, 0)

\* One of the domain-keyed methods; a WaitHTTP is made with a context that
\* has no deadline and is not cancelled yet.
CallHTTP(c) ==
    /\ started < MaxCalls
    /\ \E dom \in Domains :
           \/ \E op \in HTTPOps \ {"SetHTTPLimit"} : CallOp(c, op, dom, Background, 0)
           \/ \E burst \in Bursts : CallOp(c, "SetHTTPLimit", dom, Background, burst)

\* DomainCount() or Reset()
CallMap(c) ==
    /\ started < MaxCalls
    /\ \E op \in MapOps : CallOp(c, op, "-", Background, 0)

\* r.llmLimiter is read, without r.mu.
ReadLLMLimiter(c) ==
    /\ proc[c].pc = "read"
    /\ proc' = [proc EXCEPT ![c].lim = llmLimiter, ![c].pc = OpPC(proc[c].op)]
    /\ UNCHANGED <<now, buckets, llmLimiter, httpLimiters, mu, stats, epoch, started, ret>>
    /\ UNCHANGED admits
    /\ othersIdle

\* r.mu.Lock()
Lock(c) ==
    /\ proc[c].pc = "lock"
    /\ mu = Unlocked
    /\ mu' = c
    /\ Goto(c, IF proc[c].op \in HTTPOps THEN "get" ELSE OpPC(proc[c].op))
    /\ UNCHANGED <<now, buckets, llmLimiter, httpLimiters, stats, epoch, started>>
    /\ UNCHANGED admits
    /\ othersIdle

\* The body of getHTTPLimiter and its deferred r.mu.Unlock().
GetHTTPLimiter(c) ==
    /\ proc[c].pc = "get"
    /\ mu = c
    /\ LET dom == proc[c].dom
           g == getHTTPLimiter(httpLimiters, buckets, dom, now)
       IN  /\ httpLimiters' = g.limiters
           /\ buckets' = g.buckets
           /\ proc' = [proc EXCEPT ![c].lim = g.limiter, ![c].epoch = epoch,
                                   ![c].pc = OpPC(proc[c].op)]
           /\ stats' = [stats EXCEPT ![dom].accessed = TRUE,
                                     ![dom].created = @ + (Len(g.buckets) - Len(buckets))]
    /\ mu' = Unlocked
    /\ UNCHANGED <<now, llmLimiter, epoch, started, ret>>
    /\ UNCHANGED admits
    /\ othersIdle

\* limiter.Allow() and the return of AllowLLM / AllowHTTP.
DoAllow(c) ==
    /\ proc[c].pc = "allow"
    /\ LET r == Allow(buckets[proc[c].lim], now)
       IN  /\ buckets' = [buckets EXCEPT ![proc[c].lim] = r.bucket]
           /\ stats' = Acted(c, BoolStr(r.ok))
           /\ IF r.ok THEN Admit(now) ELSE UNCHANGED admits
           /\ Return(c, BoolStr(r.ok))
    /\ UNCHANGED <<now, llmLimiter, httpLimiters, mu, epoch, started>>
    /\ othersIdle

\* limiter.Reserve() and the return of ReserveLLM / ReserveHTTP: the
\* Reservation is returned as its delay.
DoReserve(c) ==
    /\ proc[c].pc = "reserve"
    /\ LET r == Reserve(buckets[proc[c].lim], now)
       IN  /\ buckets' = [buckets EXCEPT ![proc[c].lim] = r.bucket]
           /\ stats' = Acted(c, "reserved")
           /\ Return(c, IF r.ok THEN ToString(r.timeToAct - now) ELSE "not ok")
    /\ UNCHANGED <<now, llmLimiter, httpLimiters, mu, epoch, started>>
    /\ UNCHANGED admits
    /\ othersIdle

\* limiter.Limit() and the return of LLMLimit / HTTPLimit: the limit is
\* returned as its interval.
DoLimit(c) ==
    /\ proc[c].pc = "limit"
    /\ Return(c, ToString(buckets[proc[c].lim].interval))
    /\ UNCHANGED <<now, buckets, llmLimiter, httpLimiters, mu, stats, epoch, started>>
    /\ UNCHANGED admits
    /\ othersIdle

\* limiter.SetLimit(limit), called with the limit the bucket has.
DoSetLimit(c) ==
    /\ proc[c].pc = "setLimit"
    /\ LET b == buckets[proc[c].lim]
       IN  buckets' = [buckets EXCEPT ![proc[c].lim] = setLimitAt(b, now, b.interval)]
    /\ stats' = Acted(c, "set")
    /\ Goto(c, "setBurst")
    /\ UNCHANGED <<now, llmLimiter, httpLimiters, mu, epoch, started>>
    /\ UNCHANGED admits
    /\ othersIdle

\* limiter.SetBurst(burst) and the return of SetLLMLimit / SetHTTPLimit.
DoSetBurst(c) ==
    /\ proc[c].pc = "setBurst"
    /\ buckets' = [buckets EXCEPT ![proc[c].lim] = setBurstAt(@, now, proc[c].arg)]
    /\ Return(c, "-")
    /\ UNCHANGED <<now, llmLimiter, httpLimiters, mu, stats, epoch, started>>
    /\ UNCHANGED admits
    /\ othersIdle

\* limiter.Wait(ctx) up to its return or its select, and the return of
\* WaitLLM / WaitHTTP when Wait returned nil.
DoWait(c) ==
    /\ proc[c].pc = "wait"
    /\ LET b == buckets[proc[c].lim]
           w == Wait(b, proc[c].ctx, now)
           outcome == IF w.err # "nil" THEN "error" ELSE IF w.blocked THEN "blocked" ELSE "nil"
       IN  /\ buckets' = [buckets EXCEPT ![proc[c].lim] = w.bucket]
           /\ stats' = Acted(c, outcome)
           /\ IF outcome = "nil" THEN Admit(now) ELSE UNCHANGED admits
           /\ IF outcome = "nil"
              THEN Return(c, "nil")
              ELSE /\ proc' = [proc EXCEPT ![c].pc = IF w.blocked THEN "blocked" ELSE "errcheck",
                                           ![c].err = w.err,
                                           ![c].timeToAct = w.timeToAct,
                                           ![c].exhausted = advance(b, now) < TokenScale]
                   /\ UNCHANGED ret
    /\ UNCHANGED <<now, llmLimiter, httpLimiters, mu, epoch, started>>
    /\ othersIdle

\* The select of limiter.Wait takes the timer: Wait, and WaitLLM / WaitHTTP,
\* return nil.
WakeTimer(c) ==
    /\ proc[c].pc = "blocked"
    /\ now >= proc[c].timeToAct
    /\ Admit(proc[c].timeToAct)
    /\ Return(c, "nil")
    /\ UNCHANGED <<now, buckets, llmLimiter, httpLimiters, mu, stats, epoch, started>>
    /\ othersIdle

\* The select of limiter.Wait takes ctx.Done(): the reservation is cancelled
\* and Wait returns ctx.Err().
WakeDone(c) ==
    /\ proc[c].pc = "blocked"
    /\ CtxErr(proc[c].ctx, now) # "nil"
    /\ buckets' = [buckets EXCEPT ![proc[c].lim] = cancelAt(@, proc[c].timeToAct, now)]
    /\ proc' = [proc EXCEPT ![c].pc = "errcheck", ![c].err = CtxErr(proc[c].ctx, now)]
    /\ UNCHANGED <<now, llmLimiter, httpLimiters, mu, stats, epoch, started, ret>>
    /\ UNCHANGED admits
    /\ othersIdle

\* WaitLLM / WaitHTTP look at ctx.Err() and return the error.
CheckErr(c) ==
    /\ proc[c].pc = "errcheck"
    /\ Return(c, waitError(proc[c].err, CtxErr(proc[c].ctx, now)))
    /\ UNCHANGED <<now, buckets, llmLimiter, httpLimiters, mu, stats, epoch, started>>
    /\ UNCHANGED admits
    /\ othersIdle

\* The owner of the context of a Wait call cancels it.
CancelCtx(c) ==
    /\ proc[c].op \in WaitOps
    /\ ~proc[c].ctx.cancelled
    /\ proc' = [proc EXCEPT ![c].ctx.cancelled = TRUE, ![c].cancelledAt = proc[c].pc]
    /\ UNCHANGED <<now, buckets, llmLimiter, httpLimiters, mu, stats, epoch, started, ret>>
    /\ UNCHANGED admits
    /\ othersIdle

\* The body of DomainCount and its deferred r.mu.Unlock().
DoCount(c) ==
    /\ proc[c].pc = "count"
    /\ mu = c
    /\ mu' = Unlocked
    /\ Return(c, ToString(Cardinality(DOMAIN httpLimiters)))
    /\ UNCHANGED <<now, buckets, llmLimiter, httpLimiters, stats, epoch, started>>
    /\ UNCHANGED admits
    /\ othersIdle

\* Reset: r.httpLimiters = make(map[string]*rate.Limiter)
ResetHTTP(c) ==
    /\ proc[c].pc = "resetHTTP"
    /\ mu = c
    /\ httpLimiters' = [d \in {} |-> NoLimiter]
    /\ epoch' = epoch + 1
    /\ stats' = [k \in Keys |-> IF k \in Domains THEN FreshStats ELSE stats[k]]
    /\ Goto(c, "resetLLM")
    /\ UNCHANGED <<now, buckets, llmLimiter, mu, started>>
    /\ UNCHANGED admits
    /\ othersIdle

\* Reset leaving r.llmLimiter as it is.
ResetLLM_KeepsBucket(c) ==
    /\ proc[c].pc = "resetLLM"
    /\ mu = c
    /\ mu' = Unlocked
    /\ Return(c, "-")
    /\ UNCHANGED <<now, buckets, llmLimiter, httpLimiters, stats, epoch, started>>
    /\ UNCHANGED admits
    /\ othersIdle

\* Reset: r.llmLimiter = rate.NewLimiter(...), and the deferred r.mu.Unlock().
ResetLLM(c) ==
    /\ proc[c].pc = "resetLLM"
    /\ mu = c
    /\ buckets' = Append(buckets, NewLimiter(LLMInterval, DefaultBurst, now))
    /\ llmLimiter' = Len(buckets) + 1
    /\ stats' = [stats EXCEPT ![LLMKey] = [FreshStats EXCEPT !.created = 1]]
    /\ mu' = Unlocked
    /\ Return(c, "-")
    /\ UNCHANGED <<now, httpLimiters, epoch, started>>
    /\ UNCHANGED admits
    /\ othersIdle

\* Time passes, up to max.
Tick(max) ==
    /\ now < max
    /\ now' = now + 1
    /\ UNCHANGED <<buckets, llmLimiter, httpLimiters, mu, proc, stats, epoch, started, ret>>
    /\ UNCHANGED admits
    /\ othersIdle

\* NewRateLimiter(), with nothing else in use.
Constructed ==
    /\ pending = <<>>
    /\ fs = <<>>
    /\ call = NoCall
    /\ now = 0
    /\ buckets = <<NewLimiter(LLMInterval, DefaultBurst, 0)>>
    /\ llmLimiter = 1
    /\ httpLimiters = [d \in {} |-> NoLimiter]
    /\ mu = Unlocked
    /\ proc = [c \in Contenders |-> Idle]
    /\ stats = [k \in Keys |-> IF k = LLMKey THEN [FreshStats EXCEPT !.created = 1] ELSE FreshStats]
    /\ epoch = 0
    /\ started = 0
    /\ ret = NoRet
    /\ cache = <<>>
    /\ probe = <<>>

LimiterInit == Constructed /\ admits = NotWatched

\* Callers that only call AllowLLM and AllowHTTP.
AllowNext ==
    \/ Tick(MaxTime)
    \/ \E c \in Contenders :
        \/ CallAllow(c)
        \/ ReadLLMLimiter(c)
        \/ Lock(c)
        \/ GetHTTPLimiter(c)
        \/ DoAllow(c)

SpecAllow == LimiterInit /\ [][AllowNext]_vars

\* Callers that only call WaitLLM and WaitHTTP, and the owners of their
\* contexts.
WaitNext ==
    \/ Tick(MaxTime)
    \/ \E c \in Callers :
        \/ CallWait(c)
        \/ ReadLLMLimiter(c)
        \/ Lock(c)
        \/ GetHTTPLimiter(c)
        \/ DoWait(c)
        \/ WakeTimer(c)
        \/ WakeDone(c)
        \/ CheckErr(c)
        \/ CancelCtx(c)

SpecWait == LimiterInit /\ [][WaitNext]_vars

\* Callers of the domain-keyed methods, of DomainCount and of Reset.
BucketsNext ==
    \/ Tick(MaxTimeBuckets)
    \/ \E c \in Callers :
        \/ CallHTTP(c)
        \/ CallMap(c)
        \/ Lock(c)
        \/ GetHTTPLimiter(c)
        \/ DoAllow(c)
        \/ DoReserve(c)
        \/ DoLimit(c)
        \/ DoSetLimit(c)
        \/ DoSetBurst(c)
        \/ DoWait(c)
        \/ WakeTimer(c)
        \/ WakeDone(c)
        \/ CheckErr(c)
        \/ CancelCtx(c)
        \/ DoCount(c)
        \/ ResetHTTP(c)
        \/ ResetLLM(c)

SpecBuckets == LimiterInit /\ [][BucketsNext]_vars

-----------------------------------------------------------------------------
(* RateLimiter: properties                                                 *)

\* The refill interval of the bucket NewRateLimiter / getHTTPLimiter make
\* for a key.
IntervalOf(key) == IF key = LLMKey THEN LLMInterval ELSE HTTPInterval

\* Caller c completes an Allow call in this step.
AllowReturns(c) == proc[c].pc = "allow" /\ proc'[c].pc = "idle"

\* The domains getHTTPLimiter has looked up since construction or the last Reset.
Accessed == {d \in Domains : stats[d].accessed}

C7_OneBucketPerDomain ==
    /\ [](/\ \A d \in Domains : stats[d].created <= 1
          /\ \A c \in Callers :
                (proc[c].op \in HTTPOps /\ proc[c].lim # NoLimiter /\ proc[c].epoch = epoch)
                    => Current(proc[c].dom) = proc[c].lim
          /\ DOMAIN httpLimiters = Accessed)
    /\ [][\A c \in Callers :
            (proc[c].pc = "count" /\ proc'[c].pc = "idle")
                => ret'.res = ToString(Cardinality(Accessed))]_vars

\* After a Reset two callers hold the one bucket of the same domain at the
\* same time.
C7_Witness ==
    /\ epoch = 1
    /\ proc[1].op \in HTTPOps /\ proc[2].op \in HTTPOps
    /\ proc[1].dom = proc[2].dom
    /\ proc[1].lim # NoLimiter /\ proc[1].lim = proc[2].lim
    /\ stats[proc[1].dom].created = 1

-----------------------------------------------------------------------------------------------------------------------------------------------------
(* RateLimiter: the rate of admissions under the default limits            *)

\* "5 requests per minute", "10 requests per minute".
LLMPerWindow == 5
HTTPPerWindow == 10

PerWindow(key) == IF key = LLMKey THEN LLMPerWindow ELSE HTTPPerWindow

\* How late a watched window starts at most.
MaxStart == 1

\* An Allow or a Wait on the watched bucket, by a caller whose context can
\* be cancelled at any later step.  Only the Wait calls are counted.
CallRate(c) ==
    /\ proc[c].pc = "idle"
    /\ admits.m <= PerWindow(admits.key)
    /\ \E op \in IF admits.key = LLMKey THEN {"AllowLLM", "WaitLLM"} ELSE {"AllowHTTP", "WaitHTTP"} :
          /\ op \in WaitOps => started < MaxWaits
          /\ started' = IF op \in WaitOps THEN started + 1 ELSE started
          /\ proc' = [proc EXCEPT ![c] =
                        [Idle EXCEPT !.op = op,
                                     !.dom = IF admits.key = LLMKey THEN "-" ELSE admits.key,
                                     !.pc = IF op \in LLMOps THEN "read" ELSE "lock"]]
    /\ UNCHANGED <<now, buckets, llmLimiter, httpLimiters, mu, stats, epoch, ret, admits>>
    /\ othersIdle

\* Time passes until the latest window is over.
TickRate == Tick(MaxStart + WindowTicks)

\* NewRateLimiter(), and the bucket whose admissions are watched.
RateInit ==
    /\ Constructed
    /\ admits \in {Watched(key, start) : key \in {LLMKey, WaitDomain}, start \in 0..MaxStart}

\* Callers of Allow and Wait on one bucket, with the default limits kept.
RateNext ==
    \/ TickRate
    \/ \E c \in Callers :
        \/ CallRate(c)
        \/ ReadLLMLimiter(c)
        \/ Lock(c)
        \/ GetHTTPLimiter(c)
        \/ DoAllow(c)
        \/ DoWait(c)
        \/ WakeTimer(c)
        \/ WakeDone(c)
        \/ CheckErr(c)
        \/ CancelCtx(c)

SpecRate == RateInit /\ [][RateNext]_vars

-----------------------------------------------------------------------------
(* RateLimiter: Reset                                                      *)

\* A call that takes or reserves a token, changes a limit, counts the
\* domains or resets the limiter.
CallReset(c) ==
    /\ started < MaxCalls
    /\ \/ \E op \in {"AllowLLM", "ReserveLLM"} : CallOp(c, op, "-", Background, 0)
       \/ \E burst \in Bursts : CallOp(c, "SetLLMLimit", "-", Background, burst)
       \/ \E dom \in Domains :
              \/ \E op \in {"AllowHTTP", "ReserveHTTP"} : CallOp(c, op, dom, Background, 0)
              \/ \E burst \in Bursts : CallOp(c, "SetHTTPLimit", dom, Background, burst)
       \/ \E op \in MapOps : CallOp(c, op, "-", Background, 0)

ResetNext ==
    \/ Tick(MaxTimeBuckets)
    \/ \E c \in Callers :
        \/ CallReset(c)
        \/ ReadLLMLimiter(c)
        \/ Lock(c)
        \/ GetHTTPLimiter(c)
        \/ DoAllow(c)
        \/ DoReserve(c)
        \/ DoSetLimit(c)
        \/ DoSetBurst(c)
        \/ DoCount(c)
        \/ ResetHTTP(c)
        \/ ResetLLM(c)

SpecReset == LimiterInit /\ [][ResetNext]_vars

\* Reset returns in this step.
ResetReturns == \E c \in Callers : proc[c].op = "Reset" /\ proc'[c].pc = "idle"

\* AllowHTTP(d), called in the state reached by this step, returns true.
NextAllowHTTP(d) ==
    LET g == getHTTPLimiter(httpLimiters', buckets', d, now')
    IN  Allow(g.buckets[g.limiter], now').ok

\* C12: in the state Reset returns in, DomainCount is 0, and an AllowLLM
\* and, for every domain d, an AllowHTTP(d) called next return true,
\* whatever tokens were taken or reserved and whatever limits were set
\* before.
C12_ResetRestores ==
    [][ResetReturns =>
          /\ Cardinality(DOMAIN httpLimiters') = 0
          /\ Allow(buckets'[llmLimiter'], now').ok
          /\ \A d \in Domains : NextAllowHTTP(d)]_vars

\* Reset has returned on a limiter whose LLM bucket and one of whose HTTP
\* buckets had their token taken or reserved.
C12_Witness ==
    /\ ret.op = "Reset"
    /\ Cardinality(DOMAIN httpLimiters) = 0
    /\ llmLimiter # 1 /\ advance(buckets[1], now) < TokenScale
    /\ \E i \in 2..Len(buckets) : i # llmLimiter /\ advance(buckets[i], now) < TokenScale

-----------------------------------------------------------------------------
(* AnalysisCache: entries read within their TTL, or bypassed               *)

\* DefaultAnalysisCacheTTL, in hours.
DefaultAnalysisCacheTTL == 24

\* The clock of the cache (its now function) counts hours, up to MaxClock;
\* entries are stamped with an hour up to MaxStamp.
MaxClock == 26
MaxStamp == 1

CachePackages == {"app-misc/hello", "dev-libs/foo"}
CacheURLs == {"https://a.com/v", "https://b.org/v"}

\* &PackageConfig{URL: url, Parser: "json", Path: "version"}
SchemaOf(url) == [URL |-> url, Parser |-> "json", Path |-> "version"]

NoSchema == [URL |-> "", Parser |-> "", Path |-> ""]
NoCacheEntry == [Schema |-> NoSchema, Timestamp |-> 0, URL |-> ""]

\* Get taking an entry as old as the TTL for a fresh one.
Get_InclusiveTTL(entries, pkg, t) ==
    IF pkg \in DOMAIN entries /\ t - entries[pkg].Timestamp <= DefaultAnalysisCacheTTL
    THEN [found |-> TRUE, schema |-> entries[pkg].Schema, entries |-> entries]
    ELSE [found |-> FALSE, schema |-> NoSchema, entries |-> entries]

\* cache.Get(pkg) at time t: the schema of the entry, if there is one and it
\* is younger than the TTL.
Get(entries, pkg, t) ==
    IF pkg \in DOMAIN entries /\ t - entries[pkg].Timestamp < DefaultAnalysisCacheTTL
    THEN [found |-> TRUE, schema |-> entries[pkg].Schema, entries |-> entries]
    ELSE [found |-> FALSE, schema |-> NoSchema, entries |-> entries]

\* GetWithBypass dropping the entry it was told to bypass.
GetWithBypass_Evicts(entries, pkg, bypass, t) ==
    IF bypass
    THEN [found |-> FALSE, schema |-> NoSchema,
          entries |-> [q \in DOMAIN entries \ {pkg} |-> entries[q]]]
    ELSE Get(entries, pkg, t)

\* cache.GetWithBypass(pkg, bypass) at time t: a miss if bypass, Get(pkg) if
\* not.
GetWithBypass(entries, pkg, bypass, t) ==
    IF bypass
    THEN [found |-> FALSE, schema |-> NoSchema, entries |-> entries]
    ELSE Get(entries, pkg, t)

\* cache.GetEntry(pkg): the entry as stored, whatever its age.
GetEntry(entries, pkg) ==
    IF pkg \in DOMAIN entries
    THEN [exists |-> TRUE, entry |-> entries[pkg]]
    ELSE [exists |-> FALSE, entry |-> NoCacheEntry]

\* The last read of the cache: what was asked, what the cache held for the
\* package then, and what came back.
NoRead == [op |-> "-", pkg |-> "-", bypass |-> FALSE, existed |-> FALSE, age |-> 0,
           found |-> FALSE, schema |-> NoSchema]

Read(op, pkg, bypass, r) ==
    [op |-> op, pkg |-> pkg, bypass |-> bypass,
     existed |-> pkg \in DOMAIN cache.Entries,
     age |-> IF pkg \in DOMAIN cache.Entries
             THEN cache.clock - cache.Entries[pkg].Timestamp ELSE 0,
     found |-> r.found, schema |-> r.schema]

cacheIdle == UNCHANGED <<applierVars, limiterVars, probe>>

\* cache.Entries[pkg] = AnalysisCacheEntry{Schema, Timestamp, URL}, stamped
\* with the present hour.
PutEntry(pkg, url) ==
    /\ cache.clock <= MaxStamp
    /\ cache' = [cache EXCEPT !.Entries =
                    [q \in DOMAIN cache.Entries \cup {pkg} |->
                       IF q = pkg
                       THEN [Schema |-> SchemaOf(url), Timestamp |-> cache.clock, URL |-> url]
                       ELSE cache.Entries[q]]]
    /\ cacheIdle

\* An hour passes on the clock of the cache.
CacheTick ==
    /\ cache.clock < MaxClock
    /\ cache' = [cache EXCEPT !.clock = @ + 1]
    /\ cacheIdle

CallGet(pkg) ==
    LET r == Get(cache.Entries, pkg, cache.clock)
    IN  /\ cache' = [cache EXCEPT !.Entries = r.entries, !.last = Read("Get", pkg, FALSE, r)]
        /\ cacheIdle

CallGetWithBypass(pkg, bypass) ==
    LET r == GetWithBypass(cache.Entries, pkg, bypass, cache.clock)
    IN  /\ cache' = [cache EXCEPT !.Entries = r.entries,
                                  !.last = Read("GetWithBypass", pkg, bypass, r)]
        /\ cacheIdle

CallGetEntry(pkg) ==
    LET e == GetEntry(cache.Entries, pkg)
    IN  /\ cache' = [cache EXCEPT !.last =
                        Read("GetEntry", pkg, FALSE, [found |-> e.exists, schema |-> e.entry.Schema])]
        /\ cacheIdle

\* NewAnalysisCache(dir, WithAnalysisCacheNowFunc(...)): no entries.
CacheInit ==
    /\ pending = <<>> /\ fs = <<>> /\ call = NoCall
    /\ LimiterUnused
    /\ probe = <<>>
    /\ cache = [Entries |-> [q \in {} |-> NoCacheEntry], clock |-> 0, last |-> NoRead]

CacheNext ==
    \/ CacheTick
    \/ \E pkg \in CachePackages :
        \/ \E url \in CacheURLs : PutEntry(pkg, url)
        \/ CallGet(pkg)
        \/ \E bypass \in BOOLEAN : CallGetWithBypass(pkg, bypass)
        \/ CallGetEntry(pkg)

SpecCache == CacheInit /\ [][CacheNext]_vars

\* C13: Get(pkg) is a hit exactly when the cache holds an entry for pkg whose
\* age, now - timestamp, is below the TTL of 24 hours; at an age of exactly
\* the TTL, or more, it is a miss.
C13_HitIffYoungerThanTTL ==
    cache.last.op = "Get" =>
        (cache.last.found <=> (cache.last.existed /\ cache.last.age < DefaultAnalysisCacheTTL))

\* Get missed an entry that was exactly 24 hours old.
C13_Witness ==
    /\ cache.last.op = "Get" /\ cache.last.existed
    /\ cache.last.age = DefaultAnalysisCacheTTL /\ ~cache.last.found

\* A GetWithBypass(pkg, TRUE) is made in this step.
BypassedRead == \E pkg \in CachePackages : CallGetWithBypass(pkg, TRUE)

\* C14: GetWithBypass(pkg, true) is a miss, for a package the cache holds
\* and for one it does not, and leaves every entry as it was: a
\* GetWithBypass(q, false) and a GetEntry(q) made next return what they
\* would have returned before it.
C14_BypassMissesAndKeeps ==
    [][BypassedRead =>
          /\ ~cache'.last.found
          /\ cache'.Entries = cache.Entries
          /\ \A q \in CachePackages :
                /\ GetWithBypass(cache'.Entries, q, FALSE, cache'.clock)
                     = GetWithBypass(cache.Entries, q, FALSE, cache.clock)
                /\ GetEntry(cache'.Entries, q) = GetEntry(cache.Entries, q)]_vars

\* A bypassed read missed an entry that was fresh, and the entry is still
\* there.
C14_Witness ==
    /\ cache.last.op = "GetWithBypass" /\ cache.last.bypass
    /\ cache.last.existed /\ cache.last.age < DefaultAnalysisCacheTTL
    /\ ~cache.last.found
    /\ GetEntry(cache.Entries, cache.last.pkg).exists

-----------------------------------------------------------------------------
(* Schema validation: ValidateSchema and ValidateSchemaWithFallback        *)

\* A version string is kept as the sequence of its characters.
Num10 == <<"1", ".", "0">>
Num20 == <<"2", ".", "0">>
LowerV == <<"v">>
UpperV == <<"V">>
Blank == <<" ">>

\* The versions an ebuild is validated against.
EbuildVersions == {Num10, Num20, LowerV \o Num10, Blank \o Num10, <<>>}

\* The versions ParseVersion extracts from a content.
ParsedVersions ==
    {Num10, Num20, <<>>,
     LowerV \o Num10, UpperV \o Num10, LowerV \o LowerV \o Num10,
     Blank \o Num10 \o Blank, LowerV \o Blank \o Num10,
     <<"v", "e", "r", "s", "i", "o", "n", "-">> \o Num10,
     <<"r", "e", "l", "e", "a", "s", "e", "-">> \o Num10,
     <<"V", "e", "r", ".">> \o Num20}

\* What ParseVersion(content, schema) returns: an error, or a version.
ParseFailed == [err |-> TRUE, version |-> <<>>]
Parsed(v) == [err |-> FALSE, version |-> v]
ParseOutcomes == {ParseFailed} \cup {Parsed(v) : v \in ParsedVersions}

ErrExtractionFailed == "version extraction failed"
ErrVersionMismatch == "extracted version does not match ebuild version"

\* unicode.IsSpace, for the characters at hand.
IsSpace(ch) == ch \in {" ", "\t", "\n", "\r"}

RECURSIVE TrimLeft(_)
TrimLeft(v) == IF v # <<>> /\ IsSpace(Head(v)) THEN TrimLeft(Tail(v)) ELSE v

RECURSIVE TrimRight(_)
TrimRight(v) ==
    IF v # <<>> /\ IsSpace(v[Len(v)]) THEN TrimRight(SubSeq(v, 1, Len(v) - 1)) ELSE v

\* normalizeVersion: strings.TrimSpace(version)
normalizeVersion(version) == TrimRight(TrimLeft(version))

\* strings.HasPrefix(s, prefix)
HasPrefix(v, prefix) == Len(v) >= Len(prefix) /\ SubSeq(v, 1, Len(prefix)) = prefix

\* The prefixes stripVersionPrefix knows, in the order it tries them.
VersionPrefixes ==
    << <<"v", "e", "r", "s", "i", "o", "n", "-">>, <<"V", "e", "r", "s", "i", "o", "n", "-">>,
       <<"r", "e", "l", "e", "a", "s", "e", "-">>, <<"R", "e", "l", "e", "a", "s", "e", "-">>,
       <<"v", "e", "r", "-">>, <<"V", "e", "r", "-">>,
       <<"v", "e", "r", ".">>, <<"V", "e", "r", ".">>,
       <<"v">>, <<"V">> >>

\* stripVersionPrefix leaving every version as it is.
stripVersionPrefix_KeepsPrefix(version) == version

\* stripVersionPrefix: the version without the first prefix of the list it
\* starts with.
stripVersionPrefix(version) ==
    LET matching == {i \in 1..Len(VersionPrefixes) : HasPrefix(version, VersionPrefixes[i])}
    IN  IF matching = {}
        THEN version
        ELSE LET first == CHOOSE i \in matching : \A j \in matching : i <= j
             IN  SubSeq(version, Len(VersionPrefixes[first]) + 1, Len(version))

\* compareVersionStrings
compareVersionStrings(extracted, ebuild) ==
    LET normalizedExtracted == normalizeVersion(extracted)
        normalizedEbuild == normalizeVersion(ebuild)
    IN  \/ normalizedExtracted = normalizedEbuild
        \/ stripVersionPrefix(normalizedExtracted) = stripVersionPrefix(normalizedEbuild)

\* TestExtraction, given what its ParseVersion call returned.
TestExtraction(parsed) ==
    IF parsed.err THEN ParseFailed ELSE Parsed(normalizeVersion(parsed.version))

\* ValidateSchema marking a result valid as soon as a version was extracted.
ValidateSchema_ValidOnExtraction(parsed, ebuildVersion) ==
    LET e == TestExtraction(parsed)
    IN  [Valid |-> ~e.err, ExtractedVersion |-> e.version, EbuildVersion |-> ebuildVersion,
         VersionsMatch |-> ~e.err /\ compareVersionStrings(e.version, ebuildVersion),
         Error |-> IF e.err THEN ErrExtractionFailed ELSE "nil"]

\* ValidateSchema(content, schema, ebuildVersion), given what ParseVersion
\* returned for the content and the schema.
ValidateSchema(parsed, ebuildVersion) ==
    LET e == TestExtraction(parsed)
        match == compareVersionStrings(e.version, ebuildVersion)
    IN  IF e.err
        THEN [Valid |-> FALSE, ExtractedVersion |-> <<>>, EbuildVersion |-> ebuildVersion,
              VersionsMatch |-> FALSE, Error |-> ErrExtractionFailed]
        ELSE [Valid |-> match, ExtractedVersion |-> e.version, EbuildVersion |-> ebuildVersion,
              VersionsMatch |-> match,
              Error |-> IF match THEN "nil" ELSE ErrVersionMismatch]

\* The schemas validated: with or without a fallback URL and parser.
ValidatedSchemas ==
    [URL : {"https://primary.example.com"}, Parser : {"json"}, Path : {"version"}, Pattern : {""},
     FallbackURL : {"", "https://fallback.example.com"},
     FallbackParser : {"", "regex"},
     FallbackPattern : {"pkgver=([0-9.]+)"}]

\* &PackageConfig{URL: schema.FallbackURL, Parser: schema.FallbackParser,
\*                Path: schema.Path, Pattern: schema.FallbackPattern}
fallbackSchema(schema) ==
    [URL |-> schema.FallbackURL, Parser |-> schema.FallbackParser, Path |-> schema.Path,
     Pattern |-> schema.FallbackPattern,
     FallbackURL |-> "", FallbackParser |-> "", FallbackPattern |-> ""]

\* ValidateSchemaWithFallback trying the fallback whatever the primary gave.
ValidateSchemaWithFallback_AlwaysFallback(primaryParsed, fallbackParsed, hasFallback, schema, ebuildVersion) ==
    LET result == ValidateSchema(primaryParsed, ebuildVersion)
        fallbackResult == ValidateSchema(fallbackParsed, ebuildVersion)
    IN  IF hasFallback /\ schema.FallbackURL # "" /\ schema.FallbackParser # ""
        THEN [result |-> IF fallbackResult.Valid THEN fallbackResult ELSE result,
              attempts |-> <<schema, fallbackSchema(schema)>>]
        ELSE [result |-> result, attempts |-> <<schema>>]

\* ValidateSchemaWithFallback(primaryContent, fallbackContent, schema,
\* ebuildVersion), given what ParseVersion returns for each content;
\* hasFallback is fallbackContent != nil.  attempts lists the schemas
\* ValidateSchema was called with.
ValidateSchemaWithFallback(primaryParsed, fallbackParsed, hasFallback, schema, ebuildVersion) ==
    LET result == ValidateSchema(primaryParsed, ebuildVersion)
        fallbackResult == ValidateSchema(fallbackParsed, ebuildVersion)
    IN  IF result.Valid
        THEN [result |-> result, attempts |-> <<schema>>]
        ELSE IF hasFallback /\ schema.FallbackURL # "" /\ schema.FallbackParser # ""
        THEN [result |-> IF fallbackResult.Valid THEN fallbackResult ELSE result,
              attempts |-> <<schema, fallbackSchema(schema)>>]
        ELSE [result |-> result, attempts |-> <<schema>>]

NoProbe == [fn |-> "-"]

probeIdle == UNCHANGED <<applierVars, limiterVars, cache>>

\* No component is in use; a function is about to be called.
ProbeInit ==
    /\ pending = <<>> /\ fs = <<>> /\ call = NoCall
    /\ LimiterUnused
    /\ cache = <<>>
    /\ probe = NoProbe

CallValidateSchema(parsed, ebuildVersion) ==
    /\ probe = NoProbe
    /\ probe' = [fn |-> "ValidateSchema", parsed |-> parsed, ebuildVersion |-> ebuildVersion,
                 result |-> ValidateSchema(parsed, ebuildVersion)]
    /\ probeIdle

CallValidateSchemaWithFallback(primaryParsed, fallbackParsed, hasFallback, schema, ebuildVersion) ==
    LET r == ValidateSchemaWithFallback(primaryParsed, fallbackParsed, hasFallback, schema,
                                        ebuildVersion)
    IN  /\ probe = NoProbe
        /\ probe' = [fn |-> "ValidateSchemaWithFallback",
                     parsed |-> primaryParsed, fallbackParsed |-> fallbackParsed,
                     hasFallback |-> hasFallback, schema |-> schema,
                     ebuildVersion |-> ebuildVersion,
                     result |-> r.result, attempts |-> r.attempts]
        /\ probeIdle

ValidateNext ==
    \E parsed \in ParseOutcomes, ebuildVersion \in EbuildVersions :
        \/ CallValidateSchema(parsed, ebuildVersion)
        \/ \E fallbackParsed \in ParseOutcomes, hasFallback \in BOOLEAN, schema \in ValidatedSchemas :
               CallValidateSchemaWithFallback(parsed, fallbackParsed, hasFallback, schema,
                                              ebuildVersion)

SpecValidate == ProbeInit /\ [][ValidateNext]_vars

\* A version after normalisation: trimmed, and without its prefix.
Canonical(version) == stripVersionPrefix(normalizeVersion(version))

C16_FallbackOnlyAfterInvalidPrimary ==
    probe.fn = "ValidateSchemaWithFallback" =>
        LET primary == ValidateSchema(probe.parsed, probe.ebuildVersion)
            fallback == ValidateSchema(probe.fallbackParsed, probe.ebuildVersion)
            tried == Len(probe.attempts) = 2
        IN  /\ Len(probe.attempts) \in {1, 2} /\ probe.attempts[1] = probe.schema
            /\ tried => ~primary.Valid
            /\ tried => /\ probe.attempts[2].URL = probe.schema.FallbackURL
                        /\ probe.attempts[2].Parser = probe.schema.FallbackParser
                        /\ probe.attempts[2].Path = probe.schema.Path
                        /\ probe.attempts[2].Pattern = probe.schema.FallbackPattern
            /\ probe.result = IF primary.Valid THEN primary
                              ELSE IF tried /\ fallback.Valid THEN fallback
                              ELSE primary
            /\ probe.result.Valid <=> (primary.Valid \/ (tried /\ fallback.Valid))

\* The primary extraction failed and the fallback attempt gave the valid
\* result.
C16_Witness ==
    /\ probe.fn = "ValidateSchemaWithFallback"
    /\ probe.parsed.err /\ Len(probe.attempts) = 2
    /\ probe.result.Valid /\ probe.result.ExtractedVersion = Num10

\* ValidateSchema was given "v" + v as the extracted version and v as the
\* recorded one.
PrefixedByV == probe.fn = "ValidateSchema" /\ ~probe.parsed.err
                 /\ probe.parsed.version = LowerV \o probe.ebuildVersion

\* The comparison made by ValidateSchema gives the same with its arguments
\* exchanged.
Symmetric ==
    probe.fn = "ValidateSchema" /\ ~probe.parsed.err =>
        probe.result.VersionsMatch
            = compareVersionStrings(probe.ebuildVersion, probe.parsed.version)

IsDigit(ch) == ch \in {"0", "1", "2", "3", "4", "5", "6", "7", "8", "9"}

-----------------------------------------------------------------------------
(* Version history: the JSON, CSS selector and XPath extractors            *)

MaxVersionHistoryLimit == 10

\* A source holds up to MaxItems items, of which up to MaxOdd are not plain
\* version strings.
MaxItems == 12
MaxOdd == 1

\* The items of a source: a version string "v<id>.0.0"; a version string
\* with a text around it that the configured regex takes it out of; an empty
\* string or an element with white space only; a JSON value that is no
\* string, or that lacks the field of the path.
ItemKinds == {"version", "wrapped", "empty", "other"}

Item(kind, id) == [kind |-> kind, id |-> id]

\* The text of an item: toString for a JSON value, the trimmed text of an
\* element.
TextOf(item) ==
    CASE item.kind = "version" -> <<"v", item.id>>
      [] item.kind = "wrapped" -> <<"release ", "v", item.id>>
      [] OTHER -> <<>>

\* HTMLParser.applyRegex(text): the submatch of the regex, or an error.
applyRegex(item) ==
    IF item.kind = "wrapped"
    THEN [err |-> FALSE, extracted |-> <<"v", item.id>>]
    ELSE [err |-> TRUE, extracted |-> <<>>]

\* The places of a source of n items that hold no plain version string.
OddPlaces(n) == {P \in SUBSET (1..n) : Cardinality(P) <= MaxOdd}

Sources ==
    UNION {UNION {{[i \in 1..n |-> Item(IF i \in P THEN k[i] ELSE "version", 0)] :
                      k \in [P -> ItemKinds \ {"version"}]} :
                  P \in OddPlaces(n)} :
           n \in 0..MaxItems}

\* The items numbered by their place in the source.
Numbered(src) == [i \in DOMAIN src |-> Item(src[i].kind, i)]

ErrInvalidJSONPath == "invalid JSON path"
ErrJSONPathNotFound == "JSON path not found"
ErrNoSelectorOrXPath == "no selector or xpath"
ErrNoElementFound == "no element found"
ErrNoVersionFound == "no version found"
ErrParse == "failed to parse"

Extracted(versions) == [versions |-> versions, err |-> "nil"]
ExtractionError(err) == [versions |-> <<>>, err |-> err]

\* The loops of extractVersionsFromPath: the strings of the array, the empty
\* ones too if keepEmpty, until the limit is reached.
RECURSIVE jsonLoop(_, _, _)
jsonLoop(arr, versions, keepEmpty) ==
    IF arr = <<>> THEN versions
    ELSE LET item == Head(arr)
             skip == item.kind = "other" \/ (~keepEmpty /\ TextOf(item) = <<>>)
             next == IF skip THEN versions ELSE Append(versions, TextOf(item))
         IN  IF ~skip /\ Len(next) >= MaxVersionHistoryLimit
             THEN next
             ELSE jsonLoop(Tail(arr), next, keepEmpty)

\* JSONVersionHistoryExtractor.extractVersionsFromPath; data is the parsed
\* content: an array of items, or an object with the array at "versions".
extractVersionsFromPath(path, data) ==
    IF path \in {"[*]", "[*].tag_name"}
    THEN IF data.shape # "array" THEN ExtractionError(ErrJSONPathNotFound)
         ELSE LET versions == jsonLoop(data.items, <<>>, TRUE)
              IN  IF versions = <<>> THEN ExtractionError(ErrJSONPathNotFound)
                  ELSE Extracted(versions)
    ELSE IF data.shape # "object" THEN ExtractionError(ErrJSONPathNotFound)
         ELSE LET versions == jsonLoop(data.items, <<>>, FALSE)
              IN  IF versions = <<>> THEN ExtractionError(ErrJSONPathNotFound)
                  ELSE Extracted(versions)

\* JSONVersionHistoryExtractor.ExtractVersions
JSONExtractVersions(path, data) ==
    IF path = "" THEN ExtractionError(ErrInvalidJSONPath)
    ELSE IF data.shape = "invalid" THEN ExtractionError(ErrParse)
    ELSE LET r == extractVersionsFromPath(path, data)
         IN  IF r.err # "nil" THEN r
             ELSE IF Len(r.versions) > MaxVersionHistoryLimit
             THEN Extracted(SubSeq(r.versions, 1, MaxVersionHistoryLimit))
             ELSE r

\* The loop over the elements ending one entry after the limit.
RECURSIVE htmlLoop_OneMore(_, _, _)
htmlLoop_OneMore(nodes, versions, regex) ==
    IF nodes = <<>> \/ Len(versions) > MaxVersionHistoryLimit THEN versions
    ELSE LET node == Head(nodes)
             text == TextOf(node)
             re == applyRegex(node)
             final == IF regex # "" /\ ~re.err /\ re.extracted # <<>> THEN re.extracted ELSE text
         IN  htmlLoop_OneMore(Tail(nodes), IF text = <<>> THEN versions ELSE Append(versions, final),
                              regex)

\* The loop over the elements the selector, or the XPath, matched.
RECURSIVE htmlLoop(_, _, _)
htmlLoop(nodes, versions, regex) ==
    IF nodes = <<>> \/ Len(versions) >= MaxVersionHistoryLimit THEN versions
    ELSE LET node == Head(nodes)
             text == TextOf(node)
             re == applyRegex(node)
             final == IF regex # "" /\ ~re.err /\ re.extracted # <<>> THEN re.extracted ELSE text
         IN  htmlLoop(Tail(nodes), IF text = <<>> THEN versions ELSE Append(versions, final),
                      regex)

\* HTMLVersionHistoryExtractor.ExtractVersions; nodes are the elements the
\* selector matches in the content.
HTMLExtractVersions(selector, regex, nodes) ==
    IF selector = "" THEN ExtractionError(ErrNoSelectorOrXPath)
    ELSE IF nodes = <<>> THEN ExtractionError(ErrNoElementFound)
    ELSE LET versions == htmlLoop(nodes, <<>>, regex)
         IN  IF versions = <<>> THEN ExtractionError(ErrNoVersionFound)
             ELSE Extracted(versions)

\* XPathVersionHistoryExtractor.ExtractVersions; nodes are the nodes the
\* XPath matches in the content.
XPathExtractVersions(xpath, regex, nodes) ==
    IF xpath = "" THEN ExtractionError(ErrNoSelectorOrXPath)
    ELSE IF nodes = <<>> THEN ExtractionError(ErrNoElementFound)
    ELSE LET versions == htmlLoop(nodes, <<>>, regex)
         IN  IF versions = <<>> THEN ExtractionError(ErrNoVersionFound)
             ELSE Extracted(versions)

JSONPaths == {"", "[*]", "[*].tag_name", "versions"}
Shapes == {"array", "object", "invalid"}
Selectors == {"", ".version"}
XPaths == {"", "//span[@class='version']"}
Regexes == {"", "(v[0-9]+)"}

CallJSONExtractVersions(path, shape, src) ==
    /\ probe = NoProbe
    /\ probe' = [fn |-> "JSON", locator |-> path, regex |-> "", shape |-> shape,
                 source |-> Numbered(src),
                 result |-> JSONExtractVersions(path, [shape |-> shape, items |-> Numbered(src)])]
    /\ probeIdle

CallHTMLExtractVersions(selector, regex, src) ==
    /\ probe = NoProbe
    /\ \A i \in DOMAIN src : src[i].kind # "other"
    /\ probe' = [fn |-> "HTML", locator |-> selector, regex |-> regex, shape |-> "html",
                 source |-> Numbered(src),
                 result |-> HTMLExtractVersions(selector, regex, Numbered(src))]
    /\ probeIdle

CallXPathExtractVersions(xpath, regex, src) ==
    /\ probe = NoProbe
    /\ \A i \in DOMAIN src : src[i].kind # "other"
    /\ probe' = [fn |-> "XPath", locator |-> xpath, regex |-> regex, shape |-> "html",
                 source |-> Numbered(src),
                 result |-> XPathExtractVersions(xpath, regex, Numbered(src))]
    /\ probeIdle

HistoryNext ==
    \E src \in Sources :
        \/ \E path \in JSONPaths, shape \in Shapes : CallJSONExtractVersions(path, shape, src)
        \/ \E selector \in Selectors, regex \in Regexes : CallHTMLExtractVersions(selector, regex, src)
        \/ \E xpath \in XPaths, regex \in Regexes : CallXPathExtractVersions(xpath, regex, src)

SpecHistory == ProbeInit /\ [][HistoryNext]_vars

\* The extractor was given a locator and a content it can read.
Readable ==
    /\ probe.fn \in {"JSON", "HTML", "XPath"}
    /\ probe.locator # ""
    /\ probe.fn = "JSON" =>
          probe.shape = (IF probe.locator = "versions" THEN "object" ELSE "array")

\* The entries of the source: the version strings it holds, in its order.  A
\* JSON value that is no string is no entry; an empty string is one for a
\* [*] path only; an element with white space only is none.
IsEntry(item) ==
    CASE item.kind = "other" -> FALSE
      [] item.kind = "empty" -> probe.fn = "JSON" /\ probe.locator # "versions"
      [] OTHER -> TRUE

\* The version an entry is returned as.
EntryVersion(item) ==
    IF item.kind = "wrapped" /\ probe.regex # "" THEN <<"v", item.id>> ELSE TextOf(item)

Entries == SelectSeq(probe.source, IsEntry)

-----------------------------------------------------------------------------
(* Data source discovery: DiscoverDataSources                              *)

PriorityProvided == 0
PriorityGitHub == 10
PriorityPyPI == 20
PriorityNPM == 20
PriorityCrates == 20
PriorityHomepage == 100

ContentTypeJSON == "application/json"
ContentTypeHTML == "text/html"

\* The registries a URL or a dependency can point to.
Registries == {"github", "pypi", "npm", "crates"}

\* HOMEPAGE values: none, no HTTP(S) URL, a page of the project's own, or a
\* page of one of the registries.
Homepages ==
    {"", "ftp://example.com/pkg", "https://example.com/pkg",
     "https://github.com/owner/pkg", "https://pypi.org/project/pkg",
     "https://www.npmjs.com/package/pkg", "https://crates.io/crates/pkg"}

\* The URLs DiscoverDataSources is given: none, a JSON endpoint, a page.
ProvidedURLs == {"", "https://example.com/releases.json", "https://example.com/releases"}

\* EbuildMetadata, as far as discovery reads it: the homepage, and the
\* registries that SRC_URI, or the dependencies with the package category,
\* point to.
Metas == [Homepage : Homepages, Pointers : SUBSET Registries]

\* githubURLRegex, pypiURLRegex, npmURLRegex, cratesURLRegex matching url.
MatchesRegistry(url, registry) ==
    CASE registry = "github" -> url = "https://github.com/owner/pkg"
      [] registry = "pypi" -> url = "https://pypi.org/project/pkg"
      [] registry = "npm" -> url = "https://www.npmjs.com/package/pkg"
      [] registry = "crates" -> url = "https://crates.io/crates/pkg"
      [] OTHER -> FALSE

\* detectContentType
detectContentType(url) ==
    IF url = "https://example.com/releases.json" THEN ContentTypeJSON ELSE ContentTypeHTML

\* isValidURL
isValidURL(url) == url \notin {"", "ftp://example.com/pkg"}

DataSource(url, type, priority, contentType) ==
    [URL |-> url, Type |-> type, Priority |-> priority, ContentType |-> contentType]

RegistryURL(registry) ==
    CASE registry = "github" -> "https://api.github.com/repos/owner/pkg/releases"
      [] registry = "pypi" -> "https://pypi.org/pypi/pkg/json"
      [] registry = "npm" -> "https://registry.npmjs.org/pkg"
      [] registry = "crates" -> "https://crates.io/api/v1/crates/pkg"

RegistryPriority(registry) ==
    CASE registry = "github" -> PriorityGitHub
      [] registry = "pypi" -> PriorityPyPI
      [] registry = "npm" -> PriorityNPM
      [] registry = "crates" -> PriorityCrates

\* discoverGitHubSource, discoverPyPISource, discoverNPMSource,
\* discoverCratesSource: the source of the registry, if the homepage, SRC_URI
\* or the dependencies point to it.
discoverSource(meta, registry) ==
    IF MatchesRegistry(meta.Homepage, registry) \/ registry \in meta.Pointers
    THEN <<DataSource(RegistryURL(registry), registry, RegistryPriority(registry), ContentTypeJSON)>>
    ELSE <<>>

\* isURLCoveredBySource
isURLCoveredBySource(url, sources) ==
    \E i \in DOMAIN sources :
        sources[i].Type \in Registries /\ MatchesRegistry(url, sources[i].Type)

\* The comparison taking equal priorities for an inversion.
less_OrEqual(a, b) == a.Priority <= b.Priority

\* The less function given to sort.Slice.
less(a, b) == a.Priority < b.Priority

\* The inner loop of the insertion sort that sort.Slice runs on a slice of
\* up to 12 elements: x moves down while it is less than the element below.
RECURSIVE insertSorted(_, _)
insertSorted(sorted, x) ==
    IF sorted # <<>> /\ less(x, sorted[Len(sorted)])
    THEN Append(insertSorted(SubSeq(sorted, 1, Len(sorted) - 1), x), sorted[Len(sorted)])
    ELSE Append(sorted, x)

\* sort.Slice(sources, less), for the six sources at most there are.
RECURSIVE sortSlice(_)
sortSlice(sources) ==
    IF sources = <<>> THEN <<>>
    ELSE insertSorted(sortSlice(SubSeq(sources, 1, Len(sources) - 1)), sources[Len(sources)])

\* DiscoverDataSources
DiscoverDataSources(meta, providedURL) ==
    LET provided == IF providedURL # ""
                    THEN <<DataSource(providedURL, "provided", PriorityProvided,
                                      detectContentType(providedURL))>>
                    ELSE <<>>
        specific == provided \o discoverSource(meta, "github") \o discoverSource(meta, "pypi")
                        \o discoverSource(meta, "npm") \o discoverSource(meta, "crates")
        homepage == IF meta.Homepage # "" /\ isValidURL(meta.Homepage)
                       /\ ~isURLCoveredBySource(meta.Homepage, specific)
                    THEN <<DataSource(meta.Homepage, "homepage", PriorityHomepage, ContentTypeHTML)>>
                    ELSE <<>>
    IN  sortSlice(specific \o homepage)

CallDiscoverDataSources(meta, providedURL) ==
    /\ probe = NoProbe
    /\ probe' = [fn |-> "DiscoverDataSources", meta |-> meta, providedURL |-> providedURL,
                 result |-> DiscoverDataSources(meta, providedURL)]
    /\ probeIdle

DiscoverNext == \E meta \in Metas, providedURL \in ProvidedURLs : CallDiscoverDataSources(meta, providedURL)

SpecDiscover == ProbeInit /\ [][DiscoverNext]_vars

\* The place of a source type in the order of discovery.
DiscoveryRank(type) ==
    CASE type = "provided" -> 1
      [] type = "github" -> 2
      [] type = "pypi" -> 3
      [] type = "npm" -> 4
      [] type = "crates" -> 5
      [] type = "homepage" -> 6

\* C19: the sources DiscoverDataSources returns are in ascending order of
\* priority, sources of equal priority in the order of their discovery
\* (pypi, npm, crates), and a URL that was provided is the first of them.
C19_SortedStableProvidedFirst ==
    probe.fn = "DiscoverDataSources" =>
        LET r == probe.result
        IN  /\ \A i, j \in DOMAIN r : i < j =>
                  /\ r[i].Priority <= r[j].Priority
                  /\ r[i].Priority = r[j].Priority =>
                        DiscoveryRank(r[i].Type) < DiscoveryRank(r[j].Type)
            /\ probe.providedURL # "" =>
                  /\ r # <<>>
                  /\ r[1].Type = "provided" /\ r[1].URL = probe.providedURL
            /\ \A registry \in Registries :
                  (\E i \in DOMAIN r : r[i].Type = registry)
                      <=> (MatchesRegistry(probe.meta.Homepage, registry)
                             \/ registry \in probe.meta.Pointers)

\* A URL was provided for a package that points to the three registries of
\* equal priority and to GitHub, and has a homepage of its own.
C19_Witness ==
    /\ probe.fn = "DiscoverDataSources"
    /\ Len(probe.result) = 6
    /\ probe.result[1].Type = "provided"
    /\ probe.result[3].Type = "pypi" /\ probe.result[4].Type = "npm"
    /\ probe.result[5].Type = "crates"

-----------------------------------------------------------------------------
(* Configuration: ValidatePackageConfig and ValidateFallbackChain          *)

ParserTypeJSON == "json"
ParserTypeHTML == "html"
ParserTypeRegex == "regex"
ParserTypeLLM == "llm"

ErrInvalidParserType == "invalid parser type: must be 'json', 'regex', or 'html'"
ErrMissingURL == "missing required field: url"
ErrMissingParser == "missing required field: parser"
ErrMissingPath == "missing required field: path (required for json parser)"
ErrMissingPattern == "missing required field: pattern (required for regex parser)"
ErrMissingSelectorOrXPath == "missing required field: selector or xpath (required for html parser)"
ErrFallbackPatternRequired == "fallback_pattern required for regex fallback parser"
ErrInvalidFallbackParser == "invalid fallback_parser type"

\* The parser names a configuration is written with: none, the four known
\* ones, and one that no parser has.
ParserNames == {"", ParserTypeJSON, ParserTypeRegex, ParserTypeHTML, ParserTypeLLM, "xml"}

PackageConfigs ==
    [URL : {"", "https://example.com/releases"},
     Parser : ParserNames,
     Path : {"", "version"},
     Pattern : {"", "v([0-9.]+)"},
     Selector : {"", ".version"},
     XPath : {"", "//span"},
     FallbackURL : {"", "https://fallback.example.com"},
     FallbackParser : ParserNames,
     FallbackPattern : {"", "pkgver=([0-9.]+)"}]

\* ValidatePackageConfig(pkg, cfg): the error, or "nil".
ValidatePackageConfig(cfg) ==
    IF cfg.URL = "" THEN ErrMissingURL
    ELSE IF cfg.Parser = "" THEN ErrMissingParser
    ELSE IF cfg.Parser = "json" /\ cfg.Path = "" THEN ErrMissingPath
    ELSE IF cfg.Parser = "regex" /\ cfg.Pattern = "" THEN ErrMissingPattern
    ELSE IF cfg.Parser = "html" /\ cfg.Selector = "" /\ cfg.XPath = "" THEN ErrMissingSelectorOrXPath
    ELSE IF cfg.Parser \notin {"json", "regex", "html"} THEN ErrInvalidParserType
    ELSE IF cfg.FallbackURL # "" /\ cfg.FallbackParser # ""
    THEN CASE cfg.FallbackParser = "json" -> "nil"
           [] cfg.FallbackParser = "regex" ->
                 IF cfg.FallbackPattern = "" THEN ErrFallbackPatternRequired ELSE "nil"
           [] cfg.FallbackParser = "html" -> "nil"
           [] OTHER -> ErrInvalidFallbackParser
    ELSE "nil"

\* ValidateFallbackChain(schema), for a schema that is not nil: the error,
\* or "nil".
ValidateFallbackChain(schema) ==
    IF schema.FallbackParser = "" THEN "nil"
    ELSE IF schema.FallbackParser = schema.Parser THEN ErrInvalidParserType
    ELSE IF schema.FallbackParser \notin {ParserTypeJSON, ParserTypeHTML, ParserTypeRegex, ParserTypeLLM}
    THEN ErrInvalidParserType
    ELSE IF schema.FallbackParser = ParserTypeRegex /\ schema.FallbackPattern = ""
    THEN ErrMissingPattern
    ELSE "nil"

CallValidatePackageConfig(cfg) ==
    /\ probe = NoProbe
    /\ probe' = [fn |-> "ValidatePackageConfig", cfg |-> cfg, err |-> ValidatePackageConfig(cfg)]
    /\ probeIdle

CallValidateFallbackChain(schema) ==
    /\ probe = NoProbe
    /\ probe' = [fn |-> "ValidateFallbackChain", cfg |-> schema, err |-> ValidateFallbackChain(schema)]
    /\ probeIdle

ConfigNext ==
    \E cfg \in PackageConfigs :
        \/ CallValidatePackageConfig(cfg)
        \/ CallValidateFallbackChain(cfg)

SpecConfig == ProbeInit /\ [][ConfigNext]_vars

\* The fallback parser of cfg is one of the known parsers.
FallbackRecognized(cfg) ==
    cfg.FallbackParser \in {ParserTypeJSON, ParserTypeHTML, ParserTypeRegex, ParserTypeLLM}

\* The fallback of cfg has the locator its parser needs.
FallbackLocated(cfg) == cfg.FallbackParser = ParserTypeRegex => cfg.FallbackPattern # ""

\* C20: ValidatePackageConfig accepts a configuration with a fallback parser
\* only if that parser differs from the primary one, is a known parser and
\* has the locator it needs.
C20_FallbackMustDifferAndLocate ==
    probe.fn = "ValidatePackageConfig" /\ probe.cfg.FallbackParser # "" /\ probe.err = "nil" =>
        /\ probe.cfg.FallbackParser # probe.cfg.Parser
        /\ FallbackRecognized(probe.cfg)
        /\ FallbackLocated(probe.cfg)

-----------------------------------------------------------------------------
(* ExtractEbuildMetadata: the ebuild it selects in a package directory     *)

\* A file name is the sequence of its characters.
EbuildSuffix == <<".", "e", "b", "u", "i", "l", "d">>

DirEntry(name, isDir) == [name |-> name, isDir |-> isDir]

\* What a package directory of package "a" may hold, in the order of the
\* file names, which is the order os.ReadDir lists them in: versioned
\* ebuilds, live ebuilds, a directory named like an ebuild, a file that is
\* no ebuild, and ebuilds whose name carries no version.
DirListing ==
    << DirEntry(<<"a", "-", "1">> \o EbuildSuffix, FALSE),
       DirEntry(<<"a", "-", "1", "0">> \o EbuildSuffix, FALSE),
       DirEntry(<<"a", "-", "2">> \o EbuildSuffix, FALSE),
       DirEntry(<<"a", "-", "3", ".", "t", "x", "t">>, FALSE),
       DirEntry(<<"a", "-", "4">> \o EbuildSuffix, TRUE),
       DirEntry(<<"a", "-", "9", "9", "9", "9">> \o EbuildSuffix, FALSE),
       DirEntry(<<"a", "-", "9", "9", "9", "9", "0">> \o EbuildSuffix, FALSE),
       DirEntry(<<"a", "-", "b">> \o EbuildSuffix, FALSE),
       DirEntry(<<"a">> \o EbuildSuffix, FALSE) >>

\* The entries of DirListing at the places chosen, in the order of the listing.
RECURSIVE Listed(_, _)
Listed(places, n) ==
    IF n = 0 THEN <<>>
    ELSE Listed(places, n - 1) \o (IF n \in places THEN <<DirListing[n]>> ELSE <<>>)

Directories == {Listed(places, Len(DirListing)) : places \in SUBSET (1..Len(DirListing))}

PackageIDs == {<<"app-misc", "a">>, <<"a">>}

ErrPackageNotFound == <<"ErrPackageNotFound">>
ErrEbuildParseFailed == <<"ErrEbuildParseFailed">>

HasSuffix(s, suffix) ==
    Len(s) >= Len(suffix) /\ SubSeq(s, Len(s) - Len(suffix) + 1, Len(s)) = suffix

TrimSuffix(s, suffix) ==
    IF HasSuffix(s, suffix) THEN SubSeq(s, 1, Len(s) - Len(suffix)) ELSE s

\* findEbuilds, on a directory that could be read: the names of the entries
\* that are no directory and end in ".ebuild".
RECURSIVE findEbuilds(_)
findEbuilds(entries) ==
    IF entries = <<>> THEN <<>>
    ELSE LET entry == Head(entries)
         IN  (IF ~entry.isDir /\ HasSuffix(entry.name, EbuildSuffix)
              THEN <<entry.name>> ELSE <<>>) \o findEbuilds(Tail(entries))

\* The loop of extractVersionFromFilename, from place i down: what follows
\* the last dash that a digit follows.
RECURSIVE versionFrom(_, _)
versionFrom(name, i) ==
    IF i < 1 THEN <<>>
    ELSE IF name[i] = "-" /\ i + 1 <= Len(name) /\ name[i + 1] \in {"0", "1", "2", "3", "4", "5", "6", "7", "8", "9"}
    THEN SubSeq(name, i + 1, Len(name))
    ELSE versionFrom(name, i - 1)

extractVersionFromFilename(name) == versionFrom(name, Len(name))

\* vi == "9999" || strings.HasPrefix(vi, "9999")
Live9999 == <<"9", "9", "9", "9">>

isLive(version) == version = Live9999 \/ HasPrefix(version, Live9999)

DigitValue(ch) ==
    CASE ch = "0" -> 0 [] ch = "1" -> 1 [] ch = "2" -> 2 [] ch = "3" -> 3 [] ch = "4" -> 4
      [] ch = "5" -> 5 [] ch = "6" -> 6 [] ch = "7" -> 7 [] ch = "8" -> 8 [] ch = "9" -> 9

RECURSIVE NumberOf(_)
NumberOf(version) ==
    IF version = <<>> THEN 0
    ELSE 10 * NumberOf(SubSeq(version, 1, Len(version) - 1)) + DigitValue(version[Len(version)])

\* ebuild.CompareVersions, a total order of the versions: here they are
\* numbers, and it compares them as numbers.
CompareVersions(vi, vj) ==
    IF NumberOf(vi) > NumberOf(vj) THEN 1 ELSE IF NumberOf(vi) < NumberOf(vj) THEN -1 ELSE 0

\* The comparison that puts the live versions first.
lessEbuild_LiveFirst(a, b) ==
    IF isLive(a.version) /\ ~isLive(b.version) THEN TRUE
    ELSE IF ~isLive(a.version) /\ isLive(b.version) THEN FALSE
    ELSE CompareVersions(a.version, b.version) > 0

\* The less function selectBestEbuild gives to sort.Slice.
lessEbuild(a, b) ==
    IF isLive(a.version) /\ ~isLive(b.version) THEN FALSE
    ELSE IF ~isLive(a.version) /\ isLive(b.version) THEN TRUE
    ELSE CompareVersions(a.version, b.version) > 0

\* sort.Slice on up to 12 elements is an insertion sort.
RECURSIVE insertEbuild(_, _)
insertEbuild(sorted, x) ==
    IF sorted # <<>> /\ lessEbuild(x, sorted[Len(sorted)])
    THEN Append(insertEbuild(SubSeq(sorted, 1, Len(sorted) - 1), x), sorted[Len(sorted)])
    ELSE Append(sorted, x)

RECURSIVE sortEbuilds(_)
sortEbuilds(ebuilds) ==
    IF ebuilds = <<>> THEN <<>>
    ELSE insertEbuild(sortEbuilds(SubSeq(ebuilds, 1, Len(ebuilds) - 1)), ebuilds[Len(ebuilds)])

\* The first loop of selectBestEbuild: the paths whose name carries a version.
RECURSIVE versionedEbuilds(_)
versionedEbuilds(ebuildPaths) ==
    IF ebuildPaths = <<>> THEN <<>>
    ELSE LET version == extractVersionFromFilename(TrimSuffix(Head(ebuildPaths), EbuildSuffix))
         IN  (IF version # <<>> THEN <<[path |-> Head(ebuildPaths), version |-> version]>>
              ELSE <<>>) \o versionedEbuilds(Tail(ebuildPaths))

\* selectBestEbuild, of at least one path.
selectBestEbuild(ebuildPaths) ==
    LET ebuilds == versionedEbuilds(ebuildPaths)
    IN  IF ebuilds = <<>>
        THEN [path |-> ebuildPaths[1], version |-> <<>>]
        ELSE sortEbuilds(ebuilds)[1]

NoMetadata == [Version |-> <<>>, IsLive |-> FALSE, path |-> <<>>]

\* ExtractEbuildMetadata(overlayPath, pkg), given what the file system
\* answers: whether the package directory exists, whether it can be read,
\* its entries, and whether the selected file can be read.  Of the metadata
\* the version, the live flag and the file they come from are kept.
ExtractEbuildMetadata(pkg, dirExists, readDirOK, entries, readFileOK) ==
    IF Len(pkg) # 2 \/ ~dirExists
    THEN [err |-> Wrap("package", ErrPackageNotFound), meta |-> NoMetadata]
    ELSE IF ~readDirOK
    THEN [err |-> Wrap("cannot read directory", ErrEbuildParseFailed), meta |-> NoMetadata]
    ELSE IF findEbuilds(entries) = <<>>
    THEN [err |-> Wrap("no ebuilds", ErrEbuildNotFound), meta |-> NoMetadata]
    ELSE LET best == selectBestEbuild(findEbuilds(entries))
         IN  IF ~readFileOK
             THEN [err |-> Wrap("read", ErrEbuildParseFailed), meta |-> NoMetadata]
             ELSE [err |-> Nil,
                   meta |-> [Version |-> best.version, IsLive |-> isLive(best.version),
                             path |-> best.path]]

CallExtractEbuildMetadata(pkg, dirExists, readDirOK, entries, readFileOK) ==
    /\ probe = NoProbe
    /\ probe' = [fn |-> "ExtractEbuildMetadata", pkg |-> pkg, dirExists |-> dirExists,
                 readDirOK |-> readDirOK, entries |-> entries, readFileOK |-> readFileOK,
                 result |-> ExtractEbuildMetadata(pkg, dirExists, readDirOK, entries, readFileOK)]
    /\ probeIdle

EbuildNext ==
    \E pkg \in PackageIDs, dirExists \in BOOLEAN, readDirOK \in BOOLEAN,
       entries \in Directories, readFileOK \in BOOLEAN :
        CallExtractEbuildMetadata(pkg, dirExists, readDirOK, entries, readFileOK)

SpecEbuild == ProbeInit /\ [][EbuildNext]_vars

\* The versions of the versioned recipe files of a directory: of the files
\* named {name}-{version}.ebuild.
RecipeVersions(entries) ==
    {extractVersionFromFilename(TrimSuffix(entries[i].name, EbuildSuffix)) :
        i \in {j \in DOMAIN entries : /\ ~entries[j].isDir
                                      /\ HasSuffix(entries[j].name, EbuildSuffix)}} \ {<<>>}

\* The package directory exists and could be listed.
DirectoryListed ==
    /\ probe.fn = "ExtractEbuildMetadata"
    /\ Len(probe.pkg) = 2 /\ probe.dirExists /\ probe.readDirOK

\* C21: ExtractEbuildMetadata fails with ErrEbuildNotFound whenever the
\* package directory exists and holds no versioned recipe file, and it
\* never succeeds with an empty Version.
C21_NoVersionedRecipeIsNotFound ==
    /\ (DirectoryListed /\ RecipeVersions(probe.entries) = {})
          => ErrorsIs(probe.result.err, "ErrEbuildNotFound")
    /\ (probe.fn = "ExtractEbuildMetadata" /\ probe.result.err = Nil)
          => probe.result.meta.Version # <<>>

-----------------------------------------------------------------------------
(* Fallback chain: the suggestions and the schema they are applied to      *)

ReliabilityJSON == 1
ReliabilityHTML == 2
ReliabilityRegex == 3
ReliabilityLLM == 4

GetParserReliability(parserType) ==
    CASE parserType = ParserTypeJSON -> ReliabilityJSON
      [] parserType = ParserTypeHTML -> ReliabilityHTML
      [] parserType = ParserTypeRegex -> ReliabilityRegex
      [] parserType = ParserTypeLLM -> ReliabilityLLM
      [] OTHER -> ReliabilityLLM + 1

FallbackSuggestion(parserType, reliability, reason) ==
    [ParserType |-> parserType, Reliability |-> reliability, Reason |-> reason]

\* allFallbacks of SuggestFallbacks
allFallbacks(parserType) ==
    FallbackSuggestion(parserType, GetParserReliability(parserType),
        CASE parserType = ParserTypeJSON -> "JSON provides structured, reliable version data"
          [] parserType = ParserTypeHTML -> "HTML parsing with CSS selectors or XPath is semi-structured"
          [] parserType = ParserTypeRegex -> "Regex pattern matching works on any text content"
          [] parserType = ParserTypeLLM -> "LLM extraction handles complex or unstructured content")

orderedTypes == <<ParserTypeJSON, ParserTypeHTML, ParserTypeRegex, ParserTypeLLM>>

\* The loop of SuggestFallbacks over orderedTypes[1..n].
RECURSIVE suggestLoop(_, _)
suggestLoop(primaryParser, n) ==
    IF n = 0 THEN <<>>
    ELSE suggestLoop(primaryParser, n - 1)
            \o (IF orderedTypes[n] # primaryParser THEN <<allFallbacks(orderedTypes[n])>> ELSE <<>>)

SuggestFallbacks(primaryParser) == suggestLoop(primaryParser, Len(orderedTypes))

\* A pointer that is nil.
NilPointer == [nil |-> TRUE]

GetBestFallback(primaryParser) ==
    LET suggestions == SuggestFallbacks(primaryParser)
    IN  IF Len(suggestions) = 0 THEN NilPointer ELSE suggestions[1]

DefaultFallbackPattern == "(\\d+\\.\\d+(?:\\.\\d+)?(?:[-._]\\w+)?)"
DefaultLLMPrompt == "Extract the version number from the content"

\* ApplyFallbackToSchema(schema, fallback): the schema afterwards.
ApplyFallbackToSchema(schema, fallback) ==
    IF schema = NilPointer \/ fallback = NilPointer THEN schema
    ELSE LET set == [schema EXCEPT !.FallbackParser = fallback.ParserType]
         IN  CASE fallback.ParserType = ParserTypeRegex ->
                    IF set.FallbackPattern = ""
                    THEN [set EXCEPT !.FallbackPattern = DefaultFallbackPattern] ELSE set
               [] fallback.ParserType = ParserTypeLLM ->
                    IF set.LLMPrompt = ""
                    THEN [set EXCEPT !.LLMPrompt = DefaultLLMPrompt] ELSE set
               [] OTHER -> set

\* EnhanceSchemaWithFallback that overrides a fallback already configured.
EnhanceSchemaWithFallback_Overrides(schema) ==
    IF schema = NilPointer THEN schema
    ELSE ApplyFallbackToSchema(schema, GetBestFallback(schema.Parser))

\* EnhanceSchemaWithFallback(schema): the schema afterwards.
EnhanceSchemaWithFallback(schema) ==
    IF schema = NilPointer THEN schema
    ELSE IF schema.FallbackParser # "" THEN schema
    ELSE ApplyFallbackToSchema(schema, GetBestFallback(schema.Parser))

\* The comparison of the inner loop that moves an element past its equals.
shiftsPast_OrEqual(element, key) == element.Reliability >= key.Reliability

\* The comparison of the inner loop of OrderFallbacksByReliability.
shiftsPast(element, key) == element.Reliability > key.Reliability

\* The inner loop: key is put into result[1..i-1], which is sorted.
RECURSIVE insertKey(_, _)
insertKey(sorted, key) ==
    IF sorted # <<>> /\ shiftsPast(sorted[Len(sorted)], key)
    THEN Append(insertKey(SubSeq(sorted, 1, Len(sorted) - 1), key), sorted[Len(sorted)])
    ELSE Append(sorted, key)

\* The outer loop, up to place i.
RECURSIVE insertionSort(_, _)
insertionSort(result, i) ==
    IF i = 0 THEN <<>>
    ELSE insertKey(insertionSort(result, i - 1), result[i])

\* OrderFallbacksByReliability(fallbacks): what it returns, and the list it
\* was given as that is afterwards; it sorts a copy.
OrderFallbacksByReliability(fallbacks) ==
    [result |-> insertionSort(fallbacks, Len(fallbacks)), fallbacks |-> fallbacks]

RECURSIVE orderValidFrom(_, _)
orderValidFrom(fallbacks, i) ==
    IF i > Len(fallbacks) THEN TRUE
    ELSE IF fallbacks[i].Reliability < fallbacks[i - 1].Reliability THEN FALSE
    ELSE orderValidFrom(fallbacks, i + 1)

IsFallbackOrderValid(fallbacks) ==
    IF Len(fallbacks) <= 1 THEN TRUE ELSE orderValidFrom(fallbacks, 2)

\* The schemas: every parser name as primary and as fallback, with and
\* without a fallback pattern and a prompt; and the nil schema.
Schemas ==
    [URL : {"https://example.com/api"},
     Parser : ParserNames,
     FallbackParser : ParserNames,
     FallbackPattern : {"", "pkgver=([0-9.]+)"},
     LLMPrompt : {"", "Find the version"}] \cup {NilPointer}

\* The suggestions a list is made of: those of SuggestFallbacks, each under
\* two reasons, and one of a parser that is not known.
MaxFallbacks == 4

Suggestions ==
    {FallbackSuggestion(t, GetParserReliability(t), reason) :
        t \in {ParserTypeJSON, ParserTypeHTML, ParserTypeRegex, ParserTypeLLM, "xml"},
        reason \in {"first", "second"}}

SuggestionLists == UNION {[1..n -> Suggestions] : n \in 0..MaxFallbacks}

\* A schema is made.
NewSchema(schema) ==
    /\ probe = NoProbe
    /\ probe' = [fn |-> "PackageConfig", before |-> schema, schema |-> schema]
    /\ probeIdle

CallEnhanceSchemaWithFallback ==
    /\ probe.fn \in {"PackageConfig", "EnhanceSchemaWithFallback", "ApplyFallbackToSchema"}
    /\ probe' = [fn |-> "EnhanceSchemaWithFallback", before |-> probe.schema,
                 schema |-> EnhanceSchemaWithFallback(probe.schema)]
    /\ probeIdle

CallApplyFallbackToSchema(fallback) ==
    /\ probe.fn \in {"PackageConfig", "EnhanceSchemaWithFallback", "ApplyFallbackToSchema"}
    /\ probe' = [fn |-> "ApplyFallbackToSchema", before |-> probe.schema,
                 schema |-> ApplyFallbackToSchema(probe.schema, fallback)]
    /\ probeIdle

CallOrderFallbacksByReliability(fallbacks) ==
    LET r == OrderFallbacksByReliability(fallbacks)
    IN  /\ probe = NoProbe
        /\ probe' = [fn |-> "OrderFallbacksByReliability", given |-> fallbacks,
                     fallbacks |-> r.fallbacks, result |-> r.result,
                     valid |-> IsFallbackOrderValid(r.result)]
        /\ probeIdle

FallbackNext ==
    \/ \E schema \in Schemas : NewSchema(schema)
    \/ CallEnhanceSchemaWithFallback
    \/ \E fallback \in Suggestions \cup {NilPointer} : CallApplyFallbackToSchema(fallback)
    \/ \E fallbacks \in SuggestionLists : CallOrderFallbacksByReliability(fallbacks)

SpecFallback == ProbeInit /\ [][FallbackNext]_vars

KnownParsers == {ParserTypeJSON, ParserTypeHTML, ParserTypeRegex, ParserTypeLLM}

\* C23: EnhanceSchemaWithFallback leaves a schema that has a fallback parser
\* (and the nil schema) as it is; to a schema without one it gives the most
\* reliable of the known parsers that is not its primary parser, together
\* with the default pattern or prompt if that parser is regex or llm and
\* none is set, and changes no other field.  The schema has a fallback
\* parser afterwards, so a second call changes nothing.
C23_EnhanceOnlyWithoutFallback ==
    probe.fn = "EnhanceSchemaWithFallback" =>
        LET before == probe.before
            after == probe.schema
        IN  IF before = NilPointer \/ before.FallbackParser # ""
            THEN after = before
            ELSE /\ after.FallbackParser \in KnownParsers \ {before.Parser}
                 /\ \A p \in KnownParsers \ {before.Parser} :
                       GetParserReliability(after.FallbackParser) <= GetParserReliability(p)
                 /\ after.FallbackPattern =
                       IF after.FallbackParser = ParserTypeRegex /\ before.FallbackPattern = ""
                       THEN DefaultFallbackPattern ELSE before.FallbackPattern
                 /\ after.LLMPrompt =
                       IF after.FallbackParser = ParserTypeLLM /\ before.LLMPrompt = ""
                       THEN DefaultLLMPrompt ELSE before.LLMPrompt
                 /\ after.URL = before.URL /\ after.Parser = before.Parser
                 /\ EnhanceSchemaWithFallback(after) = after

\* The second of two calls on a schema that had no fallback parser: the
\* first gave a json schema the html fallback, the second kept it.
C23_Witness ==
    /\ probe.fn = "EnhanceSchemaWithFallback"
    /\ probe.before # NilPointer
    /\ probe.before.Parser = ParserTypeJSON /\ probe.before.FallbackParser = ParserTypeHTML
    /\ probe.before.FallbackPattern = "" /\ probe.before.LLMPrompt = ""
    /\ probe.schema = probe.before

\* The number of places of a list that hold the suggestion s.
Occurrences(list, s) == Cardinality({i \in DOMAIN list : list[i] = s})

\* C24: OrderFallbacksByReliability returns a permutation of the list it is
\* given, in ascending order of Reliability, suggestions of equal
\* Reliability in the order they had in the input; the input list is as it
\* was; IsFallbackOrderValid holds of the result.
C24_StableSortedPermutation ==
    probe.fn = "OrderFallbacksByReliability" =>
        LET in == probe.given
            out == probe.result
        IN  /\ Len(out) = Len(in)
            /\ \A s \in Suggestions : Occurrences(out, s) = Occurrences(in, s)
            /\ \A i, j \in DOMAIN out : i < j => out[i].Reliability <= out[j].Reliability
            /\ \A r \in 1..(ReliabilityLLM + 1) :
                  SelectSeq(out, LAMBDA s : s.Reliability = r)
                      = SelectSeq(in, LAMBDA s : s.Reliability = r)
            /\ probe.fallbacks = in
            /\ probe.valid

\* A list of four out of order, with two suggestions of equal Reliability
\* that differ.
C24_Witness ==
    /\ probe.fn = "OrderFallbacksByReliability"
    /\ Len(probe.given) = MaxFallbacks
    /\ probe.given[1].Reliability = ReliabilityLLM
    /\ probe.given[2].Reliability = ReliabilityJSON
    /\ probe.given[4].Reliability = ReliabilityJSON
    /\ probe.given[2] # probe.given[4]
    /\ probe.result[1] = probe.given[2] /\ probe.result[2] = probe.given[4]
    /\ probe.result # probe.given

-----------------------------------------------------------------------------
(* LLM providers: ExtractVersion of the Claude, OpenAI and Ollama clients  *)

ErrLLMRequestFailed == <<"ErrLLMRequestFailed">>
ErrLLMEmptyResponse == <<"ErrLLMEmptyResponse">>
ErrOllamaConnectionFailed == <<"ErrOllamaConnectionFailed">>

\* http.StatusOK
StatusOK == 200

RECURSIVE TrimLeftCutset(_, _)
TrimLeftCutset(s, cutset) ==
    IF s # <<>> /\ Head(s) \in cutset THEN TrimLeftCutset(Tail(s), cutset) ELSE s

RECURSIVE TrimRightCutset(_, _)
TrimRightCutset(s, cutset) ==
    IF s # <<>> /\ s[Len(s)] \in cutset
    THEN TrimRightCutset(SubSeq(s, 1, Len(s) - 1), cutset) ELSE s

TrimPrefix(s, prefix) ==
    IF HasPrefix(s, prefix) THEN SubSeq(s, Len(prefix) + 1, Len(s)) ELSE s

\* The characters U+0022 and U+0060, by their names.
DoubleQuote == "quotation mark"
Backtick == "grave accent"

\* cleanVersionString
cleanVersionString(version) ==
    LET trimmed == normalizeVersion(version)
        unprefixed == TrimPrefix(TrimPrefix(trimmed, <<"v">>), <<"V">>)
        unquoted == TrimRightCutset(TrimLeftCutset(unprefixed, {DoubleQuote, "'", Backtick}),
                                    {DoubleQuote, "'", Backtick})
        unpunctuated == TrimRightCutset(unquoted, {".", ",", ";", ":"})
    IN  normalizeVersion(unpunctuated)

\* What the server answers to the request of ExtractVersion: whether
\* httpClient.Do fails, whether reading the body fails, the status, whether
\* the body is the JSON the client expects, the message of an error body
\* and the text of a response body.
Responses ==
    [doFails : BOOLEAN, readFails : BOOLEAN, status : {StatusOK, 429, 500},
     json : BOOLEAN, message : {"", "overloaded"},
     text : {<<>>, <<" ">>, <<DoubleQuote, DoubleQuote>>, <<"v">>, <<"1", ".", "2">>, <<"v", "1", ".", "2", ".">>}]

\* The part of ExtractVersion that the three clients share, after
\* httpClient.Do returned without an error.
answered(response) ==
    IF response.readFails
    THEN [version |-> <<>>, err |-> <<"failed to read response", "io error">>]
    ELSE IF response.status # StatusOK
    THEN IF response.json /\ response.message # ""
         THEN [version |-> <<>>, err |-> Wrap(response.message, ErrLLMRequestFailed)]
         ELSE [version |-> <<>>, err |-> Wrap("status", ErrLLMRequestFailed)]
    ELSE IF ~response.json
    THEN [version |-> <<>>, err |-> <<"failed to parse response", "json error">>]
    ELSE IF response.text = <<>>
    THEN [version |-> <<>>, err |-> ErrLLMEmptyResponse]
    ELSE IF cleanVersionString(response.text) = <<>>
    THEN [version |-> <<>>, err |-> ErrLLMEmptyResponse]
    ELSE [version |-> cleanVersionString(response.text), err |-> Nil]

\* ClaudeClient.ExtractVersion
ClaudeExtractVersion(response) ==
    IF response.doFails
    THEN [version |-> <<>>, err |-> Wrap("connection", ErrLLMRequestFailed)]
    ELSE answered(response)

\* OpenAIClient.ExtractVersion
OpenAIExtractVersion(response) ==
    IF response.doFails
    THEN [version |-> <<>>, err |-> Wrap("connection", ErrLLMRequestFailed)]
    ELSE answered(response)

\* OllamaClient.ExtractVersion
OllamaExtractVersion(response) ==
    IF response.doFails
    THEN [version |-> <<>>, err |-> Wrap("connection", ErrOllamaConnectionFailed)]
    ELSE answered(response)

Providers == {"claude", "openai", "ollama"}

ExtractVersion(provider, response) ==
    CASE provider = "claude" -> ClaudeExtractVersion(response)
      [] provider = "openai" -> OpenAIExtractVersion(response)
      [] provider = "ollama" -> OllamaExtractVersion(response)

CallExtractVersion(provider, response) ==
    /\ probe = NoProbe
    /\ probe' = [fn |-> "ExtractVersion", provider |-> provider, response |-> response,
                 result |-> ExtractVersion(provider, response)]
    /\ probeIdle

ProviderNext ==
    \E provider \in Providers, response \in Responses : CallExtractVersion(provider, response)

SpecProvider == ProbeInit /\ [][ProviderNext]_vars

\* Why a request failed, as the server's answer tells it.
Cause(response) ==
    IF response.doFails THEN "connection failure"
    ELSE IF response.readFails THEN "unreadable body"
    ELSE IF response.status # StatusOK THEN "non-success status"
    ELSE IF ~response.json THEN "malformed body"
    ELSE IF cleanVersionString(response.text) = <<>> THEN "empty response"
    ELSE "none"

\* The kind of an error: the error values that errors.Is finds in it.
ErrorKind(err) ==
    {s \in {"ErrLLMRequestFailed", "ErrLLMEmptyResponse", "ErrOllamaConnectionFailed"} :
        ErrorsIs(err, s)}

RemoteFailures == {"connection failure", "non-success status", "empty response"}

\* C25: with every provider, the error of a call that failed for one of the
\* causes connection failure, non-success status and empty response is of
\* another kind than the error of any call that failed for another of them.
C25_RemoteFailuresDistinct ==
    (probe.fn = "ExtractVersion" /\ Cause(probe.response) \in RemoteFailures) =>
        /\ probe.result.err # Nil
        /\ \A other \in Responses :
              (Cause(other) \in RemoteFailures /\ Cause(other) # Cause(probe.response))
                  => ErrorKind(ExtractVersion(probe.provider, other).err)
                        # ErrorKind(probe.result.err)

-----------------------------------------------------------------------------
(* RateLimiter: the fields its methods read and write                      *)

\* The fields of RateLimiter that are assigned after construction.
Fields == {"llmLimiter", "httpLimiters"}

\* The next step of caller c reads the field: the LLM methods read
\* r.llmLimiter, getHTTPLimiter and DomainCount read r.httpLimiters.
ReadsField(c, field) ==
    \/ field = "llmLimiter" /\ proc[c].pc = "read"
    \/ field = "httpLimiters" /\ proc[c].pc \in {"get", "count"}

\* The next step of caller c writes the field: getHTTPLimiter stores into
\* r.httpLimiters, Reset assigns both fields.
WritesField(c, field) ==
    \/ field = "llmLimiter" /\ proc[c].pc = "resetLLM"
    \/ field = "httpLimiters" /\ proc[c].pc \in {"get", "resetHTTP"}

\* C26: no two callers are about to access the same field, one of them
\* writing it, unless each makes its access holding r.mu (which excludes
\* their being about to at the same time).
C26_NoUnsynchronizedAccess ==
    \A a, b \in Callers : \A field \in Fields :
        (a # b /\ (ReadsField(a, field) \/ WritesField(a, field)) /\ WritesField(b, field))
            => (mu = a /\ mu = b)

-----------------------------------------------------------------------------
(* Applier.Apply: the order of its steps                                   *)

\* The event is one of the steps of Apply: the copy, the manifest command,
\* the write of status validated, the confirmation, the search for a
\* privilege tool and the compile command.  The write of status failed and
\* the saving of the compile log are what Apply does about a failure.
IsStep(e) ==
    \/ e.op \in {"copyEbuild", "exec", "confirm", "LookPath"}
    \/ e.op = "SetStatus" /\ e.arg = StatusValidated

StepFailed(e) == IsStep(e) /\ e.out \in {"fail", "no"}

\* An event with this op and outcome, and this argument unless it is "*",
\* comes before place i of the events of the last call.
DidBefore(i, op, arg, out) ==
    \E j \in 1..(i - 1) :
        /\ call.events[j].op = op /\ call.events[j].out = out
        /\ arg # "*" => call.events[j].arg = arg

\* C27: in what an Apply call did, the manifest command comes after a
\* successful copy, the write of status validated after a successful
\* manifest command, the confirmation after a successful write of
\* validated, the search for a privilege tool after an accepted
\* confirmation, the compile command after an accepted confirmation and a
\* tool found, and no step comes after a step that failed.
C27_StepsInOrderEachGated ==
    \A i \in 1..Len(call.events) :
        LET e == call.events[i]
        IN  /\ (e.op = "exec" /\ e.arg = "ebuild manifest") => DidBefore(i, "copyEbuild", "*", "ok")
            /\ (e.op = "SetStatus" /\ e.arg = StatusValidated)
                  => DidBefore(i, "exec", "ebuild manifest", "ok")
            /\ e.op = "confirm" => DidBefore(i, "SetStatus", StatusValidated, "ok")
            /\ e.op = "LookPath" => DidBefore(i, "confirm", "*", "yes")
            /\ (e.op = "exec" /\ e.arg # "ebuild manifest")
                  => /\ DidBefore(i, "confirm", "*", "yes")
                     /\ DidBefore(i, "LookPath", "*", "ok")
            /\ StepFailed(e) => \A j \in (i + 1)..Len(call.events) : ~IsStep(call.events[j])

\* A call that went through every step: copy, manifest, validated,
\* confirmation, privilege tool, compile.
C27_Witness ==
    /\ call.done /\ call.compile /\ call.result.Success
    /\ Len(call.events) = 6
    /\ call.events[1].op = "copyEbuild" /\ call.events[2].op = "exec"
    /\ call.events[3].op = "SetStatus" /\ call.events[4].op = "confirm"
    /\ call.events[5].op = "LookPath" /\ call.events[6].op = "exec"
    /\ call.events[6].out = "ok"

-----------------------------------------------------------------------------
(* Applier.Apply: the status it leaves, and what it leaves behind          *)

\* The call of this step found its entry and every SetStatus it made
\* succeeded.
AppliedAndRecorded ==
    /\ call'.done /\ call'.found
    /\ \A i \in 1..Len(call'.events) :
           call'.events[i].op = "SetStatus" => call'.events[i].out = "ok"

\* C29: an Apply call that found its entry, and whose SetStatus calls
\* succeeded, leaves the status of the package validated or failed,
\* whatever it was before, and leaves the entry of every other package as
\* it was.
C29_NeverPendingAfterApply ==
    [][AppliedAndRecorded =>
          /\ pending'[call'.pkg].status \in {StatusValidated, StatusFailed}
          /\ \A pkg \in Pkgs \ {call'.pkg} : pending'[pkg] = pending[pkg]]_vars

\* A call on an entry that an earlier call had left failed: it ends
\* validated.
C29_Witness ==
    /\ call.done /\ call.found
    /\ call.prior = StatusFailed
    /\ StatusOf(call.pkg) = StatusValidated
    /\ ~DidOut("SetStatus", "fail")

\* The call of this step copied the ebuild, met a failing manifest command
\* and recorded it in the ledger.
ManifestFailedAfterCopy ==
    /\ call'.done /\ call'.found
    /\ \E i \in 1..Len(call'.events) :
           call'.events[i].op = "copyEbuild" /\ call'.events[i].out = "ok"
    /\ \E i \in 1..Len(call'.events) :
           call'.events[i] = Ev("exec", call'.pkg, "ebuild manifest", "fail")
    /\ \E i \in 1..Len(call'.events) :
           call'.events[i] = Ev("SetStatus", call'.pkg, StatusFailed, "ok")

\* C30: when the manifest command fails after a successful copy (the ledger
\* accepting the write), {name}-{newVersion}.ebuild is left in place with
\* the content the source had, the source and every other file are as they
\* were, the status of the package is failed and that of every other
\* package is as it was.
C30_NoRollbackAfterManifestFailure ==
    [][ManifestFailedAfterCopy =>
          LET src == EbuildPath(call'.pkg, pending[call'.pkg].cur)
              dst == EbuildPath(call'.pkg, pending[call'.pkg].new)
          IN  /\ fs'[dst] # NoFile
              /\ fs'[dst] = fs[src]
              /\ fs'[src] = fs[src]
              /\ \A path \in Paths \ {dst} : fs'[path] = fs[path]
              /\ ~call'.result.Success
              /\ pending'[call'.pkg].status = StatusFailed
              /\ \A pkg \in Pkgs \ {call'.pkg} : pending'[pkg] = pending[pkg]]_vars

-----------------------------------------------------------------------------
(* RateLimiter: Wait calls under a deadline (C28)                          *)

\* The deadlines a context of a Wait call can carry: none, or an instant of
\* the clock.
MaxDeadline == 2
Deadlines == {NoDeadline} \cup 1..MaxDeadline

\* The contexts of the Wait calls of this section: context.Background(), or
\* one made by WithCancel, WithDeadline or WithTimeout.
DeadlineContexts == [cancelled : BOOLEAN, deadline : Deadlines]

\* WaitLLM(ctx) or WaitHTTP(ctx, domain), ctx carrying a deadline or none.
CallWaitDeadline(c) ==
    /\ started < MaxWaits
    /\ \E ctx \in DeadlineContexts :
           \/ CallOp(c, "WaitLLM", "-", ctx, 0)
           \/ CallOp(c, "WaitHTTP", WaitDomain, ctx, 0)

\* Callers of WaitLLM and WaitHTTP whose contexts can carry a deadline, and
\* the owners of these contexts.
DeadlineNext ==
    \/ Tick(MaxTime)
    \/ \E c \in Callers :
        \/ CallWaitDeadline(c)
        \/ ReadLLMLimiter(c)
        \/ Lock(c)
        \/ GetHTTPLimiter(c)
        \/ DoWait(c)
        \/ WakeTimer(c)
        \/ WakeDone(c)
        \/ CheckErr(c)
        \/ CancelCtx(c)

SpecDeadline == LimiterInit /\ [][DeadlineNext]_vars

\* limiter.Wait failed because of the caller's context: it was cancelled,
\* its deadline has expired, or its deadline cannot be met.
ContextCause(err) ==
    err \in {"context canceled", "context deadline exceeded", ErrWouldExceedDeadline}

\* WaitLLM / WaitHTTP of caller c return in this step, limiter.Wait having
\* failed.
WaitFails(c) == proc[c].pc = "errcheck" /\ proc'[c].pc = "idle"

\* WaitLLM / WaitHTTP of caller c return in this step.
WaitReturns(c) == proc[c].op \in WaitOps /\ proc[c].pc # "idle" /\ proc'[c].pc = "idle"

\* In this step caller c takes a token of its bucket, or the token it had
\* reserved has come due.
TokenGranted(c) ==
    \/ /\ proc[c].pc = "wait"
       /\ advance(buckets[proc[c].lim], now) >= TokenScale
       /\ buckets'[proc[c].lim].tokens = advance(buckets[proc[c].lim], now) - TokenScale
    \/ /\ proc[c].pc = "blocked"
       /\ now >= proc[c].timeToAct

\* C28: WaitLLM and WaitHTTP return ErrRateLimitExceeded exactly when
\* limiter.Wait failed because of the caller's context (cancelled, deadline
\* expired, or deadline that cannot be met); any other failure of
\* limiter.Wait is returned as it is; and nil is returned only when a token
\* was granted.
C28_RateLimitExceededIffContextCause ==
    [][\A c \in Callers :
          /\ WaitFails(c) =>
                /\ (ret'.res = ErrRateLimitExceeded) <=> ContextCause(proc[c].err)
                /\ ~ContextCause(proc[c].err) => ret'.res = proc[c].err
          /\ (WaitReturns(c) /\ ret'.res = "nil") => TokenGranted(c)]_vars

\* C28 without the case of a deadline that cannot be met: a failure for a
\* cancelled context or an expired deadline is returned as
\* ErrRateLimitExceeded, any other as it is, and nil only with a token.
C28_CancelledOrExpired ==
    [][\A c \in Callers :
          /\ (WaitFails(c) /\ proc[c].err # ErrWouldExceedDeadline) =>
                /\ (ret'.res = ErrRateLimitExceeded) <=> ContextCause(proc[c].err)
                /\ ~ContextCause(proc[c].err) => ret'.res = proc[c].err
          /\ (WaitReturns(c) /\ ret'.res = "nil") => TokenGranted(c)]_vars

====
